---- MODULE Spec2Model ----
(***************************************************************************)
(* A model of latexexpr_efficalc: the expression tree of Variable (leaf),  *)
(* Operation and Expression objects, their construction, the assignment of *)
(* leaf values, numeric evaluation and the three renderings.               *)
(*                                                                         *)
(* Objects live in a heap (a sequence; an object's id is its index), so    *)
(* that a leaf shared by several parents is one object. Python floats are  *)
(* modelled as exact rationals; a real that is not a small rational is     *)
(* kept as an unevaluated term (Irr).                                      *)
(***************************************************************************)
EXTENDS Integers, Sequences, FiniteSets, TLC

VARIABLES heap, last

vars == <<heap, last>>

(***************************************************************************)
(* Bounds of the model.                                                    *)
(***************************************************************************)
\* objects the heap of a session may hold
MaxHeap == 3
\* objects a session on the expression fixture may add to it
MaxExtra == 2
\* longest argument list handed to the Operation constructor
MaxArgs == 2
\* numerators and denominators up to Cap are computed exactly
Cap == 10000
\* exponents up to ExpCap (on bases up to ExpCap) are computed exactly
ExpCap == 8

(***************************************************************************)
(* Numbers. A value is None, a rational n/d in lowest terms with d > 0, a  *)
(* string (Variable._set_value keeps a non-numeric string), or Irr.        *)
(***************************************************************************)
None == [k |-> "None"]

StrVal(s) == [k |-> "str", s |-> s]

Irr(f, xs) == [k |-> "irr", f |-> f, xs |-> xs]

Abs(n) == IF n < 0 THEN -n ELSE n

RECURSIVE GCD(_, _)
GCD(a, b) == IF b = 0 THEN a ELSE GCD(b, a % b)

Rat(n, d) ==
  LET s == IF d < 0 THEN -1 ELSE 1
      g == GCD(Abs(n), Abs(d))
  IN  [k |-> "num", n |-> (s * n) \div g, d |-> (s * d) \div g]

Whole(n) == [k |-> "num", n |-> n, d |-> 1]

IsNum(x) == x.k = "num"

IsSmall(x) == IsNum(x) /\ Abs(x.n) <= Cap /\ x.d <= Cap

IsInt(x) == IsNum(x) /\ x.d = 1

\* x < y on rationals (both small)
Less(x, y) == x.n * y.d < y.n * x.d

\* x < m for a rational x of any size and an integer m
LessInt(x, m) == (x.n \div x.d) < m

IsZero(x) == IsNum(x) /\ x.n = 0

\* a result of a Python call: a value, or the class of the exception raised
Ok(v) == [ok |-> TRUE, val |-> v]

Raise(e) == [ok |-> FALSE, err |-> e]

(***************************************************************************)
(* Float arithmetic, as the operators and math functions result() uses.    *)
(* Each returns Ok(value) or Raise(exception class).                       *)
(***************************************************************************)
PyAdd(x, y) ==
  IF IsSmall(x) /\ IsSmall(y)
  THEN Rat(x.n * y.d + y.n * x.d, x.d * y.d)
  ELSE Irr("+", <<x, y>>)

PySub(x, y) ==
  IF IsSmall(x) /\ IsSmall(y)
  THEN Rat(x.n * y.d - y.n * x.d, x.d * y.d)
  ELSE Irr("-", <<x, y>>)

PyMul(x, y) ==
  IF IsSmall(x) /\ IsSmall(y)
  THEN Rat(x.n * y.n, x.d * y.d)
  ELSE Irr("*", <<x, y>>)

PyNeg(x) == IF IsNum(x) THEN Rat(-x.n, x.d) ELSE Irr("neg", <<x>>)

PyAbs(x) == IF IsNum(x) THEN Rat(Abs(x.n), x.d) ELSE Irr("abs", <<x>>)

\* v0 / v1 in IEEE 754 arithmetic without traps: infinity or NaN for v1 = 0
PyTrueDivIEEE(x, y) ==
  IF IsZero(y) THEN Ok(Irr(IF IsZero(x) THEN "nan" ELSE "inf", <<x, y>>))
  ELSE IF IsSmall(x) /\ IsSmall(y)
       THEN Ok(Rat(x.n * y.d, x.d * y.n))
       ELSE Ok(Irr("/", <<x, y>>))

\* v0 / v1 on floats: ZeroDivisionError when v1 is 0.0
PyTrueDiv(x, y) ==
  IF IsZero(y) THEN Raise("ZeroDivisionError")
  ELSE IF IsSmall(x) /\ IsSmall(y)
       THEN Ok(Rat(x.n * y.d, x.d * y.n))
       ELSE Ok(Irr("/", <<x, y>>))

\* v0 // v1 on floats: the floor of the quotient
PyFloorDiv(x, y) ==
  IF IsZero(y) THEN Raise("ZeroDivisionError")
  ELSE IF IsSmall(x) /\ IsSmall(y)
       THEN LET q == Rat(x.n * y.d, x.d * y.n)
            IN  Ok(Whole(q.n \div q.d))
       ELSE Ok(Irr("//", <<x, y>>))

\* max / min of two floats
PyMax(x, y) ==
  IF IsSmall(x) /\ IsSmall(y)
  THEN (IF Less(x, y) THEN y ELSE x)
  ELSE Irr("max", <<x, y>>)

PyMin(x, y) ==
  IF IsSmall(x) /\ IsSmall(y)
  THEN (IF Less(y, x) THEN y ELSE x)
  ELSE Irr("min", <<x, y>>)

\* the q-th root of the natural number n when it is a natural number, else -1
NatRoot(n, q) ==
  LET R == IF q = 2 THEN {r \in 0..n : r * r = n}
           ELSE {r \in 0..ExpCap : r <= n /\ r ^ q = n}
  IN  IF R = {} THEN -1 ELSE CHOOSE r \in R : TRUE

\* x ^ p for an integer p and a rational x # 0 or p >= 0
IntPow(x, p) ==
  IF Abs(x.n) <= ExpCap /\ x.d <= ExpCap /\ Abs(p) <= ExpCap
  THEN (IF p = 0 THEN Whole(1)
        ELSE IF p > 0 THEN Rat(x.n ^ p, x.d ^ p)
        ELSE Rat(x.d ^ (-p), x.n ^ (-p)))
  ELSE Irr("pow", <<x, Whole(p)>>)

\* math.pow(x, y)
MathPow(x, y) ==
  IF ~(IsNum(x) /\ IsNum(y)) THEN Ok(Irr("pow", <<x, y>>))
  ELSE IF x.n = 0 /\ y.n < 0 THEN Raise("ValueError")
  ELSE IF x.n < 0 /\ y.d # 1 THEN Raise("ValueError")
  ELSE IF y.d = 1 THEN Ok(IntPow(x, y.n))
  ELSE IF IsSmall(x) /\ y.d <= ExpCap
            /\ NatRoot(x.n, y.d) >= 0 /\ NatRoot(x.d, y.d) >= 0
       THEN Ok(IntPow(Rat(NatRoot(x.n, y.d), NatRoot(x.d, y.d)), y.n))
       ELSE Ok(Irr("pow", <<x, y>>))

\* a square root defined on the negative numbers too, by the magnitude
MathSqrtOfMagnitude(x) ==
  IF ~IsNum(x) THEN Ok(Irr("sqrt", <<x>>))
  ELSE IF NatRoot(Abs(x.n), 2) >= 0 /\ NatRoot(x.d, 2) >= 0
       THEN Ok(Rat(NatRoot(Abs(x.n), 2), NatRoot(x.d, 2)))
       ELSE Ok(Irr("sqrt", <<x>>))

\* math.sqrt(x)
MathSqrt(x) ==
  IF ~IsNum(x) THEN Ok(Irr("sqrt", <<x>>))
  ELSE IF x.n < 0 THEN Raise("ValueError")
  ELSE IF IsSmall(x) /\ NatRoot(x.n, 2) >= 0 /\ NatRoot(x.d, 2) >= 0
       THEN Ok(Rat(NatRoot(x.n, 2), NatRoot(x.d, 2)))
       ELSE Ok(Irr("sqrt", <<x>>))

\* math.log(x): 0 at 1, a domain error at x <= 0
MathLog(x) ==
  IF ~IsNum(x) THEN Ok(Irr("ln", <<x>>))
  ELSE IF x.n <= 0 THEN Raise("ValueError")
  ELSE IF x = Whole(1) THEN Ok(Whole(0))
  ELSE Ok(Irr("ln", <<x>>))

\* math.log(x) / math.log(b): the exponent k when x = b ^ k
LogRatio(x, b) ==
  LET lx == MathLog(x)
      lb == MathLog(b)
  IN  IF ~lx.ok THEN lx
      ELSE IF ~lb.ok THEN lb
      ELSE IF IsZero(lb.val) THEN Raise("ZeroDivisionError")
      ELSE IF IsZero(lx.val) THEN Ok(Whole(0))
      ELSE IF IsNum(x) /\ IsNum(b) /\ Abs(b.n) <= ExpCap /\ b.d <= ExpCap
                /\ \E e \in (-ExpCap)..ExpCap : IntPow(b, e) = x
           THEN Ok(Whole(CHOOSE e \in (-ExpCap)..ExpCap : IntPow(b, e) = x))
           ELSE Ok(Irr("log", <<b, x>>))

\* math.sin, cos, tan, sinh, cosh, tanh, exp: exact at 0, a term elsewhere
MathFun(f, x) ==
  IF IsZero(x)
  THEN (IF f \in {"cos", "cosh", "exp"} THEN Whole(1) ELSE Whole(0))
  ELSE Irr(f, <<x>>)

(***************************************************************************)
(* Number formatting: Python's '%' and format() conversions of a float,    *)
(* for the conversions the module uses.                                    *)
(***************************************************************************)
RECURSIVE Pad(_, _)
\* s padded on the left with zeros to width w
Pad(s, w) == IF Len(s) >= w THEN s ELSE Pad("0" \o s, w)

RECURSIVE Frac(_, _)
\* the decimals fp / 10^w with trailing zeros (and a bare point) removed
Frac(fp, w) ==
  IF w = 0 THEN ""
  ELSE IF fp % 10 = 0 THEN Frac(fp \div 10, w - 1)
       ELSE "." \o Pad(ToString(fp), w)

\* num / den (both positive) rounded to the nearest integer, ties to even
RoundHalfEven(num, den) ==
  LET q == num \div den
      r == num % den
  IN  IF 2 * r < den THEN q
      ELSE IF 2 * r > den THEN q + 1
           ELSE IF q % 2 = 0 THEN q ELSE q + 1

\* the numbers whose digits the model computes
HasDigits(x) == IsNum(x) /\ (IsSmall(x) \/ x.d = 1)

\* the decimal exponent e of n/d > 0: 10^e <= n/d < 10^(e+1)
Exp10(n, d) ==
  CHOOSE e \in (-4)..9 :
    /\ IF e >= 0 THEN (n \div d) >= 10 ^ e ELSE n * 10 ^ (-e) >= d
    /\ IF e + 1 > 0 THEN (n \div d) < 10 ^ (e + 1) ELSE n * 10 ^ (-e - 1) < d

\* '%.4g' of n/d > 0, without sign
DigitsG4(n, d) ==
  LET e0 == Exp10(n, d)
      m0 == IF e0 <= 3 THEN RoundHalfEven(n * 10 ^ (3 - e0), d)
            ELSE RoundHalfEven(n, d * 10 ^ (e0 - 3))
      e == IF m0 = 10000 THEN e0 + 1 ELSE e0
      m == IF m0 = 10000 THEN 1000 ELSE m0
  IN  IF e >= 4
      THEN ToString(m \div 1000) \o Frac(m % 1000, 3)
             \o "e+" \o Pad(ToString(e), 2)
      ELSE ToString(m \div 10 ^ (3 - e)) \o Frac(m % 10 ^ (3 - e), 3 - e)

\* the conversion conv ("g4" for .4g, "f0" for .0f, "d" for d) of the
\* magnitude of x; a number whose digits the model does not compute is
\* written as the conversion applied to the value
Digits(conv, x) ==
  IF ~HasDigits(x) THEN "<" \o conv \o ":" \o ToString(x) \o ">"
  ELSE IF conv = "d" THEN ToString(Abs(x.n) \div x.d)
  ELSE IF conv = "f0" THEN ToString(RoundHalfEven(Abs(x.n), x.d))
  ELSE IF x.n = 0 THEN "0"
       ELSE DigitsG4(Abs(x.n), x.d)

IsNegative(x) == IsNum(x) /\ x.n < 0

\* f % x for a format string f of the module
PercentFormat(f, x) ==
  LET conv == IF f = "%.4g" THEN "g4"
              ELSE IF f = "%.0f" THEN "f0"
              ELSE IF f = "%d" THEN "d"
              ELSE f
      body == IF conv \in {"g4", "f0", "d"} THEN Digits(conv, x)
              ELSE "<" \o f \o ":" \o ToString(x) \o ">"
      zero == conv = "d" /\ HasDigits(x) /\ Abs(x.n) < x.d
  IN  (IF IsNegative(x) /\ ~zero THEN "-" ELSE "") \o body

\* format(x, ' .4g') and format(x, ' .0f'): a space stands for the plus sign
SpaceFormat(conv, x) ==
  (IF IsNegative(x) THEN "-" ELSE " ") \o Digits(conv, x)

(***************************************************************************)
(* Operator tags and their arity classes (module constants).               *)
(***************************************************************************)
NONE_ == ""
ADD == "+"
SUB == "-"
MUL == "*"
DIV == "/"
DIV2 == "//"
NEG == "neg"
POS == "pos"
ABS == "abs"
MAX == "max"
MIN == "min"
POW == "pow"
SQR == "sqr"
ROOT == "root"
SQRT == "sqrt"
SIN == "sin"
COS == "cos"
TAN == "tan"
SINH == "sinh"
COSH == "cosh"
TANH == "tanh"
EXP == "exp"
LOG == "log"
LN == "ln"
LOG10 == "log10"
RBRACKETS == "()"
SBRACKETS == "[]"
CBRACKETS == "{}"
ABRACKETS == "<>"

supportedOperations1 ==
  {NONE_, NEG, POS, ABS, SQR, SQRT, SIN, COS, TAN, SINH, COSH, TANH, EXP, LN,
   LOG10, RBRACKETS, SBRACKETS, CBRACKETS, ABRACKETS}

supportedOperations2 == {SUB, DIV, DIV2, POW, ROOT, LOG}

supportedOperationsN == {ADD, MUL, MAX, MIN}

supportedOperations ==
  supportedOperations1 \cup supportedOperations2 \cup supportedOperationsN

(***************************************************************************)
(* Objects. A heap is a sequence of objects; a reference is an index.      *)
(***************************************************************************)
DefaultFormat == "%.4g"

DefaultUnitFormat == "\\mathrm{%s}"

IsVariable(o) == o.cls = "Variable"

IsOperation(o) == o.cls = "Operation"

IsExpression(o) == o.cls = "Expression"

\* float(v) for a Python value v handed to Variable: a number is kept, a
\* string is parsed (only the strings below are numerals), None is refused
FloatOfValue(v) ==
  IF v.k = "num" \/ v.k = "irr" THEN Ok(v)
  ELSE IF v.k = "str"
       THEN (IF v.s = " 7 " THEN Ok(Whole(7)) ELSE Raise("ValueError"))
       ELSE Raise("TypeError")

\* Variable.set_format: the format that follows from the stored value
SetFormat(o) ==
  IF o.value = None THEN o
  ELSE IF o.value.k = "num"
       THEN [o EXCEPT !.format =
               IF LessInt(o.value, 1000) THEN "%.4g" ELSE "%.0f"]
       ELSE o

\* Variable.__init__ keeping a string that float() refuses, as the value
\* setter does
VariableInitKeepingStrings(name, value, unit, format, unitFormat, exponent) ==
  Ok(SetFormat([cls |-> "Variable", name |-> name,
                value |-> IF value # None /\ FloatOfValue(value).ok
                          THEN FloatOfValue(value).val ELSE value,
                unit |-> unit, format |-> format,
                unitFormat |-> unitFormat, exponent |-> exponent]))

\* Variable.__init__
VariableInit(name, value, unit, format, unitFormat, exponent) ==
  LET f == FloatOfValue(value)
  IN  IF value # None /\ ~f.ok THEN f
      ELSE Ok(SetFormat([cls |-> "Variable", name |-> name,
                         value |-> IF value = None THEN None ELSE f.val,
                         unit |-> unit, format |-> format,
                         unitFormat |-> unitFormat, exponent |-> exponent]))

\* str(v).strip() for a value v that float() refused: surrounding blanks are
\* removed (of the strings drawn, " x " is the one that has some)
Strip(v) ==
  IF v.k = "str" /\ v.s = " x " THEN StrVal("x") ELSE v

\* Variable._set_value: the value property's setter (format is left alone)
SetValueOf(o, v) ==
  IF v = None THEN [o EXCEPT !.value = None]
  ELSE LET f == FloatOfValue(v)
       IN  IF f.ok THEN [o EXCEPT !.value = f.val]
           ELSE [o EXCEPT !.value = Strip(v)]

(***************************************************************************)
(* is_symbolic() and result() / float(), by recursion over the heap h.     *)
(***************************************************************************)
\* is_symbolic looking at the leaves among the direct children only
IsSymbolicShallow(h, i) ==
  LET o == h[i]
  IN  IF IsVariable(o) THEN o.value = None
      ELSE IF IsOperation(o)
           THEN \E j \in 1..Len(o.args) :
                  IsVariable(h[o.args[j]]) /\ h[o.args[j]].value = None
           ELSE IsVariable(h[o.operation]) /\ h[o.operation].value = None

RECURSIVE IsSymbolic(_, _)
\* Variable.is_symbolic, Operation.is_symbolic, Expression.is_symbolic
IsSymbolic(h, i) ==
  LET o == h[i]
  IN  IF IsVariable(o) THEN o.value = None
      ELSE IF IsOperation(o)
           THEN \E j \in 1..Len(o.args) : IsSymbolic(h, o.args[j])
           ELSE IsSymbolic(h, o.operation)

\* the first exception among the results rs, in order
FirstError(rs) ==
  rs[CHOOSE j \in 1..Len(rs) :
       ~rs[j].ok /\ \A m \in 1..(j - 1) : rs[m].ok]

AllOk(rs) == \A j \in 1..Len(rs) : rs[j].ok

RECURSIVE SumFrom(_, _, _)
\* sum(v): 0 + v[1] + ... + v[n]
SumFrom(rs, j, acc) ==
  IF j > Len(rs) THEN acc ELSE SumFrom(rs, j + 1, PyAdd(acc, rs[j].val))

RECURSIVE ProdFrom(_, _, _)
\* reduce(lambda x, y: x * y, v, 1.0)
ProdFrom(rs, j, acc) ==
  IF j > Len(rs) THEN acc ELSE ProdFrom(rs, j + 1, PyMul(acc, rs[j].val))

RECURSIVE MaxFrom(_, _, _)
\* max(v) over a non-empty v
MaxFrom(rs, j, acc) ==
  IF j > Len(rs) THEN acc ELSE MaxFrom(rs, j + 1, PyMax(acc, rs[j].val))

RECURSIVE MinFrom(_, _, _)
\* min(v) over a non-empty v
MinFrom(rs, j, acc) ==
  IF j > Len(rs) THEN acc ELSE MinFrom(rs, j + 1, PyMin(acc, rs[j].val))

\* Operation.result for an n-ary tag: the generator v is consumed in order
ResultN(t, rs) ==
  IF ~AllOk(rs) THEN FirstError(rs)
  ELSE IF t = ADD THEN Ok(SumFrom(rs, 1, Whole(0)))
  ELSE IF t = MUL THEN Ok(ProdFrom(rs, 1, Whole(1)))
  ELSE IF Len(rs) = 0 THEN Raise("ValueError")
  ELSE IF t = MAX THEN Ok(MaxFrom(rs, 2, rs[1].val))
  ELSE Ok(MinFrom(rs, 2, rs[1].val))

\* Operation.result for a binary tag with the operands read in reverse
Result2Reversed(t, rs) ==
  IF Len(rs) < 2 THEN Raise("IndexError")
  ELSE IF ~rs[1].ok THEN rs[1]
  ELSE IF ~rs[2].ok THEN rs[2]
  ELSE LET v0 == rs[2].val
           v1 == rs[1].val
       IN  IF t = SUB THEN Ok(PySub(v0, v1))
           ELSE IF t = DIV THEN PyTrueDiv(v0, v1)
           ELSE IF t = DIV2 THEN PyFloorDiv(v0, v1)
           ELSE IF t = POW THEN MathPow(v0, v1)
           ELSE IF t = ROOT
                THEN LET inv == PyTrueDiv(Whole(1), v0)
                     IN  IF inv.ok THEN MathPow(v1, inv.val) ELSE inv
           ELSE LogRatio(v1, v0)

\* Operation.result for a binary tag: v0 = float(a[0]); v1 = float(a[1])
Result2(t, rs) ==
  IF Len(rs) = 0 THEN Raise("IndexError")
  ELSE IF ~rs[1].ok THEN rs[1]
  ELSE IF Len(rs) = 1 THEN Raise("IndexError")
  ELSE IF ~rs[2].ok THEN rs[2]
  ELSE LET v0 == rs[1].val
           v1 == rs[2].val
       IN  IF t = SUB THEN Ok(PySub(v0, v1))
           ELSE IF t = DIV THEN PyTrueDiv(v0, v1)
           ELSE IF t = DIV2 THEN PyFloorDiv(v0, v1)
           ELSE IF t = POW THEN MathPow(v0, v1)
           ELSE IF t = ROOT
                THEN LET inv == PyTrueDiv(Whole(1), v0)
                     IN  IF inv.ok THEN MathPow(v1, inv.val) ELSE inv
           ELSE LogRatio(v1, v0)

\* Operation.result for a unary tag: v = float(a[0])
Result1(t, rs) ==
  IF Len(rs) = 0 THEN Raise("IndexError")
  ELSE IF ~rs[1].ok THEN rs[1]
  ELSE LET v == rs[1].val
       IN  IF t \in {NONE_, POS, RBRACKETS, SBRACKETS, CBRACKETS, ABRACKETS}
           THEN Ok(v)
           ELSE IF t = NEG THEN Ok(PyNeg(v))
           ELSE IF t = ABS THEN Ok(PyAbs(v))
           ELSE IF t = SQR THEN MathPow(v, Whole(2))
           ELSE IF t = SQRT THEN MathSqrt(v)
           ELSE IF t = LN THEN MathLog(v)
           ELSE IF t = LOG10 THEN LogRatio(v, Whole(10))
           ELSE Ok(MathFun(t, v))

\* Operation.result, given the results rs of float(arg) for each arg
OperationResult(t, rs) ==
  IF t \in supportedOperationsN THEN ResultN(t, rs)
  ELSE IF t \in supportedOperations2 THEN Result2(t, rs)
  ELSE IF t \in supportedOperations1 THEN Result1(t, rs)
  ELSE Raise("LaTeXExpressionError")

\* Variable.result
VariableResult(o) ==
  IF o.value = None THEN Raise("LaTeXExpressionError") ELSE Ok(o.value)

\* float(x) for what x.__float__() returned: a str is refused
AsFloat(r) ==
  IF r.ok /\ r.val.k = "str" THEN Raise("TypeError") ELSE r

RECURSIVE Result(_, _)
\* x.result() for the object h[i]
Result(h, i) ==
  LET o == h[i]
  IN  IF IsVariable(o) THEN VariableResult(o)
      ELSE IF IsOperation(o)
           THEN OperationResult(o.type,
                  [j \in 1..Len(o.args) |-> AsFloat(Result(h, o.args[j]))])
           ELSE AsFloat(Result(h, o.operation))

\* float(x) with a named expression evaluating as when it was wrapped over a
\* tree without values
FloatAsWrapped(h, i) ==
  IF IsExpression(h[i]) THEN Raise("TypeError") ELSE AsFloat(Result(h, i))

\* float(x) for the object h[i]
Float(h, i) == AsFloat(Result(h, i))

(***************************************************************************)
(* Rendering: str_symbolic, str_substituted, str_result,                   *)
(* str_result_with_unit and __str__ of the three classes.                  *)
(***************************************************************************)
\* unitFormat % unit
UnitText(unitFormat, unit) ==
  IF unitFormat = DefaultUnitFormat THEN "\\mathrm{" \o unit \o "}"
  ELSE IF unitFormat = "%s" THEN unit
       ELSE "<" \o unitFormat \o ":" \o unit \o ">"

\* "\cdot 10^{%d}" % e
TimesTen(e) == "\\cdot 10^{" \o ToString(e) \o "}"

\* the scientific form shared by the three str_result methods (e # 0)
Scientific(f, r, e) ==
  LET p == MathPow(Whole(10), Whole(-e))
      val == IF IsNum(r) THEN PyMul(r, p.val) ELSE Irr("*", <<r, p.val>>)
  IN  IF IsNegative(r)
      THEN "\\left( " \o PercentFormat(f, val) \o " " \o TimesTen(e)
             \o " \\right)"
      ELSE "{ " \o PercentFormat(f, val) \o " " \o TimesTen(e) \o " }"

\* Variable.str_result with four significant digits for every number
LeafNumeralFourDigits(r) ==
  IF ~IsNum(r) THEN SpaceFormat("g4", r)
  ELSE IF r.n < 0 THEN "\\left( " \o SpaceFormat("g4", r) \o " \\right)"
  ELSE SpaceFormat("g4", r)

\* Variable.str_result for a value that is a number, with exponent e = 0
LeafNumeral(r) ==
  IF ~IsNum(r) THEN SpaceFormat("g4", r)
  ELSE IF LessInt(r, -1000)
       THEN "\\left( " \o SpaceFormat("f0", r) \o " \\right)"
  ELSE IF r.n < 0 THEN "\\left( " \o SpaceFormat("g4", r) \o " \\right)"
  ELSE IF LessInt(r, 1000) THEN SpaceFormat("g4", r)
  ELSE SpaceFormat("f0", r)

\* Operation.str_result and Expression.str_result for the result r, with
\* exponent e = 0 and format f
NodeNumeral(f, r) ==
  IF ~IsNum(r) THEN SpaceFormat("g4", r)
  ELSE IF LessInt(r, -1000)
       THEN "\\left( " \o SpaceFormat("f0", r) \o " \\right)"
  ELSE IF r.n < 0 THEN "\\left(" \o PercentFormat(f, r) \o "\\right)"
  ELSE IF LessInt(r, 1000) THEN SpaceFormat("g4", r)
  ELSE SpaceFormat("f0", r)

\* Variable.str_symbolic, Expression.str_symbolic
NameSymbolic(o) == "{" \o o.name \o "}"

\* Variable.str_result giving the bare name of a symbolic leaf, as __str__
\* does
VariableStrResultBareName(o) ==
  IF o.value = None THEN o.name
  ELSE IF o.value.k = "str" THEN " " \o o.value.s
  ELSE IF o.exponent = 0 THEN LeafNumeral(o.value)
  ELSE Scientific(o.format, o.value, o.exponent)

\* Variable.str_result (called without arguments)
VariableStrResult(o) ==
  IF o.value = None THEN NameSymbolic(o)
  ELSE IF o.value.k = "str" THEN " " \o o.value.s
  ELSE IF o.exponent = 0 THEN LeafNumeral(o.value)
  ELSE Scientific(o.format, o.value, o.exponent)

\* Variable.str_result_with_unit, which is also Variable.str_substituted
VariableStrResultWithUnit(o) ==
  VariableStrResult(o) \o " \\ " \o UnitText(o.unitFormat, o.unit)

\* Variable.__str__ without the case of the symbolic leaf
VariableStrAlwaysEquation(o) ==
  o.name \o " = " \o VariableStrResultWithUnit(o)

\* Variable.__str__
VariableStr(o) ==
  IF o.value = None THEN o.name
  ELSE o.name \o " = " \o VariableStrResultWithUnit(o)

RECURSIVE JoinFrom(_, _, _)
\* sep.join(v) from index j on
JoinFrom(rs, sep, j) ==
  IF j > Len(rs) THEN ""
  ELSE IF j = Len(rs) THEN rs[j].val
       ELSE rs[j].val \o sep \o JoinFrom(rs, sep, j + 1)

\* Operation.__str for an n-ary tag, given the renderings rs of the args
OperationStrN(t, rs) ==
  IF ~AllOk(rs) THEN FirstError(rs)
  ELSE IF t = ADD THEN Ok(JoinFrom(rs, " + ", 1))
  ELSE IF t = MUL THEN Ok(JoinFrom(rs, " \\cdot ", 1))
  ELSE IF t = MAX
       THEN Ok("\\max{\\left( " \o JoinFrom(rs, ", ", 1) \o " \\right)}")
       ELSE Ok("\\min{\\left( " \o JoinFrom(rs, ", ", 1) \o " \\right)}")

\* Operation.__str for a binary tag, with the subtrahend in parentheses
OperationStr2Grouping(t, rs) ==
  IF Len(rs) = 0 THEN Raise("IndexError")
  ELSE IF ~rs[1].ok THEN rs[1]
  ELSE IF Len(rs) = 1 THEN Raise("IndexError")
  ELSE IF ~rs[2].ok THEN rs[2]
  ELSE LET v0 == rs[1].val
           v1 == rs[2].val
       IN  IF t = SUB THEN Ok(v0 \o " - \\left( " \o v1 \o " \\right)")
           ELSE IF t = DIV
                THEN Ok("\\frac{ " \o v0 \o " }{ " \o v1 \o " }")
           ELSE IF t = DIV2
                THEN Ok("\\left \\lfloor \\frac{ " \o v0 \o " }{ " \o v1
                          \o " } \\right \\rfloor")
           ELSE IF t = POW
                THEN Ok("{\\left( " \o v0 \o " \\right)}^{ " \o v1 \o " }")
           ELSE IF t = ROOT
                THEN Ok("\\sqrt[ " \o v0 \o " ]{ " \o v1 \o " }")
           ELSE Ok("\\log_{ " \o v0 \o " }{ " \o v1 \o " }")

\* Operation.__str for a binary tag
OperationStr2(t, rs) ==
  IF Len(rs) = 0 THEN Raise("IndexError")
  ELSE IF ~rs[1].ok THEN rs[1]
  ELSE IF Len(rs) = 1 THEN Raise("IndexError")
  ELSE IF ~rs[2].ok THEN rs[2]
  ELSE LET v0 == rs[1].val
           v1 == rs[2].val
       IN  IF t = SUB THEN Ok(v0 \o " - " \o v1)
           ELSE IF t = DIV
                THEN Ok("\\frac{ " \o v0 \o " }{ " \o v1 \o " }")
           ELSE IF t = DIV2
                THEN Ok("\\left \\lfloor \\frac{ " \o v0 \o " }{ " \o v1
                          \o " } \\right \\rfloor")
           ELSE IF t = POW
                THEN Ok("{\\left( " \o v0 \o " \\right)}^{ " \o v1 \o " }")
           ELSE IF t = ROOT
                THEN Ok("\\sqrt[ " \o v0 \o " ]{ " \o v1 \o " }")
           ELSE Ok("\\log_{ " \o v0 \o " }{ " \o v1 \o " }")

\* Operation.__str for a unary tag
OperationStr1(t, rs) ==
  IF Len(rs) = 0 THEN Raise("IndexError")
  ELSE IF ~rs[1].ok THEN rs[1]
  ELSE LET v == rs[1].val
       IN  IF t = NONE_ THEN Ok(v)
           ELSE IF t = NEG THEN Ok("\\left( - " \o v \o " \\right)")
           ELSE IF t = POS THEN Ok("\\left( + " \o v \o " \\right)")
           ELSE IF t = ABS THEN Ok("\\left| " \o v \o " \\right|")
           ELSE IF t = SQR THEN Ok(v \o "^2")
           ELSE IF t = SQRT THEN Ok("\\sqrt{ " \o v \o " }")
           ELSE IF t \in {SIN, COS, TAN, SINH, COSH, TANH}
                THEN Ok("\\" \o t \o "{\\left( " \o v \o " \\right)}")
           ELSE IF t = EXP THEN Ok("\\mathrm{e}^{ " \o v \o " }")
           ELSE IF t = LN THEN Ok("\\ln{ " \o v \o " }")
           ELSE IF t = LOG10 THEN Ok("\\log_{10}{ " \o v \o " }")
           ELSE IF t = RBRACKETS THEN Ok("\\left( " \o v \o " \\right)")
           ELSE IF t = SBRACKETS THEN Ok("\\left[ " \o v \o " \\right]")
           ELSE IF t = CBRACKETS THEN Ok("\\left\\{ " \o v \o " \\right\\}")
           ELSE Ok("\\left\\langle " \o v \o " \\right\\rangle")

\* Operation.__str(what), given the renderings rs of the args
OperationStr(t, rs) ==
  IF t \in supportedOperationsN THEN OperationStrN(t, rs)
  ELSE IF t \in supportedOperations2 THEN OperationStr2(t, rs)
  ELSE IF t \in supportedOperations1 THEN OperationStr1(t, rs)
  ELSE Raise("LaTeXExpressionError")

\* the tail of str_result with the format and exponent every operation has
NodeStrResultDefault(o, r) ==
  IF ~r.ok THEN r ELSE Ok(NodeNumeral("%.4g", r.val))

\* the tail shared by Operation.str_result and Expression.str_result once
\* r = float(self) is known
NodeStrResult(o, r) ==
  IF ~r.ok THEN r
  ELSE IF o.exponent = 0 THEN Ok(NodeNumeral(o.format, r.val))
  ELSE Ok(Scientific(o.format, r.val, o.exponent))

\* "%s \\ %s" % (self.str_result(), self.unitFormat % self.unit)
WithUnit(o, r) ==
  IF ~r.ok THEN r
  ELSE Ok(r.val \o " \\ " \o UnitText(o.unitFormat, o.unit))

\* "%s" % b: the equation without its left side
EquationRightOnly(a, b) ==
  IF ~a.ok THEN a ELSE IF ~b.ok THEN b ELSE Ok(b.val)

\* "%s = %s" % (a, b) for two renderings, a rendered first
Equation(a, b) ==
  IF ~a.ok THEN a ELSE IF ~b.ok THEN b ELSE Ok(a.val \o " = " \o b.val)

RECURSIVE Str(_, _, _)
\* the method what of the object h[i], called without arguments; what is
\* str_symbolic, str_substituted, str_result, str_result_with_unit, __str__
Str(h, i, what) ==
  LET o == h[i]
  IN  IF IsVariable(o)
      THEN (IF what = "str_symbolic" THEN Ok(NameSymbolic(o))
            ELSE IF what = "str_result" THEN Ok(VariableStrResult(o))
            ELSE IF what = "__str__" THEN Ok(VariableStr(o))
            ELSE Ok(VariableStrResultWithUnit(o)))
      ELSE IF IsOperation(o)
      THEN (IF what \in {"str_symbolic", "str_substituted"}
            THEN OperationStr(o.type,
                   [j \in 1..Len(o.args) |-> Str(h, o.args[j], what)])
            ELSE IF what = "__str__"
            THEN (IF IsSymbolic(h, i) THEN Str(h, i, "str_symbolic")
                  ELSE Equation(Str(h, i, "str_symbolic"),
                                Str(h, i, "str_substituted")))
            ELSE IF IsSymbolic(h, i) THEN Str(h, i, "str_symbolic")
                 ELSE NodeStrResult(o, Float(h, i)))
      ELSE (IF what = "str_symbolic" THEN Ok(NameSymbolic(o))
            ELSE IF what = "__str__"
            THEN (IF IsSymbolic(h, i)
                  THEN Equation(Ok(o.name), Str(h, o.operation, "__str__"))
                  ELSE LET w == Str(h, i, "str_result_with_unit")
                       IN  IF ~w.ok THEN w
                           ELSE Equation(Equation(Ok(o.name),
                                           Str(h, o.operation, "__str__")),
                                         w))
            ELSE IF what = "str_result_with_unit"
            THEN WithUnit(o, Str(h, i, "str_result"))
            ELSE IF IsSymbolic(h, i)
                 THEN Str(h, o.operation, "str_substituted")
                 ELSE NodeStrResult(o, Float(h, i)))

(***************************************************************************)
(* Constructors and conversions. An operand handed to a constructor is a   *)
(* reference to an object, an int or float literal, or any other value.    *)
(***************************************************************************)
Ref(i) == [k |-> "ref", id |-> i]

IntLit(n) == [k |-> "int", n |-> n]

FloatLit(x) == [k |-> "float", x |-> x]

Other == [k |-> "other"]

\* Variable.from_expression(e) on a fresh Variable("", 0, ""), where r is the
\* outcome of None if e.is_symbolic() else float(e); then the new name
FromExpression(e, newName, r) ==
  IF ~r.ok THEN r
  ELSE Ok([cls |-> "Variable",
           name |-> IF newName # "" THEN newName ELSE e.name,
           value |-> r.val, unit |-> e.unit, format |-> e.format,
           unitFormat |-> e.unitFormat, exponent |-> e.exponent])

\* Expression.to_variable(newName)
ExpressionToVariable(h, i, newName) ==
  FromExpression(h[i], newName,
                 IF IsSymbolic(h, i) THEN Ok(None) ELSE Float(h, i))

\* Variable(newName, r) for the outcome r of float(self)
VariableOf(newName, r) ==
  IF ~r.ok THEN r
  ELSE VariableInit(newName, r.val, "", DefaultFormat, DefaultUnitFormat, 0)

\* Operation.to_variable(newName): Variable(newName, float(self))
OperationToVariable(h, i, newName) == VariableOf(newName, Float(h, i))

\* ret.append(obj) for an object obj that the loop of __check_args creates
Created(h, r) ==
  IF r.ok THEN Ok([heap |-> Append(h, r.val), id |-> Len(h) + 1]) ELSE r

\* __check_args making a leaf of any argument that is not a node
CheckArgAnyType(h, a) ==
  IF a.k = "ref"
  THEN (IF IsExpression(h[a.id])
        THEN Created(h, ExpressionToVariable(h, a.id, ""))
        ELSE Ok([heap |-> h, id |-> a.id]))
  ELSE Created(h, VariableInit("x", None, "", "%d", DefaultUnitFormat, 0))

\* __check_args appending a copy of a leaf instead of the leaf
CheckArgCopying(h, a) ==
  IF a.k = "ref"
  THEN (IF IsExpression(h[a.id])
        THEN Created(h, ExpressionToVariable(h, a.id, ""))
        ELSE IF IsVariable(h[a.id]) THEN Created(h, Ok(h[a.id]))
        ELSE Ok([heap |-> h, id |-> a.id]))
  ELSE IF a.k = "int"
       THEN Created(h, VariableInit(ToString(a.n), Whole(a.n), "", "%d",
                                    DefaultUnitFormat, 0))
  ELSE IF a.k = "float"
       THEN Created(h, VariableInit(PercentFormat("%.4g", a.x), a.x, "",
                                    "%.4g", DefaultUnitFormat, 0))
  ELSE Raise("TypeError")

\* __check_args making a leaf without a value of a number
CheckArgSymbolicLiteral(h, a) ==
  IF a.k = "ref"
  THEN (IF IsExpression(h[a.id])
        THEN Created(h, ExpressionToVariable(h, a.id, ""))
        ELSE Ok([heap |-> h, id |-> a.id]))
  ELSE IF a.k = "int"
       THEN Created(h, VariableInit(ToString(a.n), None, "", "%d",
                                    DefaultUnitFormat, 0))
  ELSE IF a.k = "float"
       THEN Created(h, VariableInit(PercentFormat("%.4g", a.x), None, "",
                                    "%.4g", DefaultUnitFormat, 0))
  ELSE Raise("TypeError")

\* __check_args appending an expression itself, as it does a leaf or an
\* operation
CheckArgKeepingExpression(h, a) ==
  IF a.k = "ref" THEN Ok([heap |-> h, id |-> a.id])
  ELSE IF a.k = "int"
       THEN Created(h, VariableInit(ToString(a.n), Whole(a.n), "", "%d",
                                    DefaultUnitFormat, 0))
  ELSE IF a.k = "float"
       THEN Created(h, VariableInit(PercentFormat("%.4g", a.x), a.x, "",
                                    "%.4g", DefaultUnitFormat, 0))
  ELSE Raise("TypeError")

\* one step of the loop of Operation.__check_args for the argument a: the
\* heap with the leaf made for a literal or an expression, and the reference
\* appended to ret; or the exception raised
CheckArg(h, a) ==
  IF a.k = "ref"
  THEN (IF IsExpression(h[a.id])
        THEN Created(h, ExpressionToVariable(h, a.id, ""))
        ELSE Ok([heap |-> h, id |-> a.id]))
  ELSE IF a.k = "int"
       THEN Created(h, VariableInit(ToString(a.n), Whole(a.n), "", "%d",
                                    DefaultUnitFormat, 0))
  ELSE IF a.k = "float"
       THEN Created(h, VariableInit(PercentFormat("%.4g", a.x), a.x, "",
                                    "%.4g", DefaultUnitFormat, 0))
  ELSE Raise("TypeError")

RECURSIVE CheckArgs(_, _, _, _)
\* the loop of __check_args after the step c for the argument j
CheckRest(c, args, j, ret) ==
  IF ~c.ok THEN c
  ELSE CheckArgs(c.val.heap, args, j + 1, Append(ret, c.val.id))

\* Operation.__check_args from argument j on: the heap with the leaves made
\* for literals and expressions, and the references collected in ret
CheckArgs(h, args, j, ret) ==
  IF j > Len(args) THEN Ok([heap |-> h, ret |-> ret])
  ELSE CheckRest(CheckArg(h, args[j]), args, j, ret)

\* the node of Operation.__init__ once c = __check_args(args) is known
NodeOf(type, c) ==
  IF ~c.ok THEN c
  ELSE Ok(Append(c.val.heap,
                 [cls |-> "Operation", type |-> type, args |-> c.val.ret,
                  format |-> "%.4g", exponent |-> 0]))

\* Operation.__init__ without the check of the tag
OperationInitAnyTag(h, type, args) ==
  NodeOf(type, CheckArgs(h, args, 1, <<>>))

\* Operation.__init__(type, *args): the heap with the new node last
OperationInit(h, type, args) ==
  IF type \notin supportedOperations THEN Raise("LaTeXExpressionError")
  ELSE NodeOf(type, CheckArgs(h, args, 1, <<>>))

\* the body of Expression.set_format: float(self.str_result()) succeeds only
\* on a plain numeral, the rendering of a result >= 0 with exponent 0
FormatFrom(h, i, symbolic, v, r) ==
  IF ~v.ok THEN v
  ELSE IF symbolic \/ h[i].exponent # 0 \/ ~IsNum(r.val) \/ IsNegative(r.val)
       THEN Ok(h)
       ELSE Ok([h EXCEPT ![i].format =
                  IF LessInt(r.val, 1000) /\ v.val # " 1000"
                  THEN "%.4g" ELSE "%.0f"])

\* Expression.set_format for the expression h[i], where v is the outcome of
\* self.str_result() and r of float(self)
ExpressionSetFormat(h, i) ==
  FormatFrom(h, i, IsSymbolic(h, i), Str(h, i, "str_result"), Float(h, i))

\* the end of Expression.__init__: the expression over the child that is the
\* last object of h1, and set_format()
ExpressionOver(h1, child, name, unit, format, unitFormat, exponent) ==
  ExpressionSetFormat(
    Append(h1, [cls |-> "Expression", name |-> name, operation |-> child,
                unit |-> unit, format |-> format, unitFormat |-> unitFormat,
                exponent |-> exponent]),
    Len(h1) + 1)

\* Expression.__init__ for a Variable, wrapped in the identity Operation that
\* is the last object of h1
ExpressionOverLast(h1, name, unit, format, unitFormat, exponent) ==
  ExpressionOver(h1, Len(h1), name, unit, format, unitFormat, exponent)

\* Expression.__init__: a Variable is wrapped in an identity Operation
ExpressionInit(h, name, operation, unit, format, unitFormat, exponent) ==
  IF IsVariable(h[operation])
  THEN ExpressionOverLast(OperationInit(h, NONE_, <<Ref(operation)>>).val,
                          name, unit, format, unitFormat, exponent)
  ELSE ExpressionOver(h, operation, name, unit, format, unitFormat, exponent)

(***************************************************************************)
(* The inputs the specifications draw.                                     *)
(***************************************************************************)
\* the values client code gives to leaves
Values == {None, Whole(-8), Whole(0), Whole(2)}

\* a tag that is not an operation of the module
BogusTag == "bogus"

Tags == supportedOperations \cup {BogusTag}

\* the literals client code mixes with nodes
Literals == {IntLit(3)}

\* the operands of a constructor call on the heap h
Operands(h) == {Ref(i) : i \in 1..Len(h)} \cup Literals \cup {Other}

\* the argument lists of at most MaxArgs operands
ArgLists(h) == UNION {[1..n -> Operands(h)] : n \in 0..MaxArgs}

Leaf(name, value) ==
  VariableInit(name, value, "", DefaultFormat, DefaultUnitFormat, 0).val

\* the record of a call: what was called, with which tag and arguments, and
\* "ok" or the name of the exception it raised
Called(call, type, args, out) ==
  [call |-> call, type |-> type, args |-> args, out |-> out]

Outcome(r) == IF r.ok THEN "ok" ELSE r.err

(***************************************************************************)
(* Actions: the calls of client code.                                      *)
(***************************************************************************)
\* a call that returns the new object r.val, or raises
Appends(call, args, r) ==
  /\ heap' = IF r.ok THEN Append(heap, r.val) ELSE heap
  /\ last' = Called(call, "", args, Outcome(r))

\* a call that returns with the heap r.val, or raises
Returns(call, type, args, r) ==
  /\ heap' = IF r.ok THEN r.val ELSE heap
  /\ last' = Called(call, type, args, Outcome(r))

\* Variable(name, value, unit)
NewVariable(name, value, unit) ==
  Appends("Variable", <<>>,
          VariableInit(name, value, unit, DefaultFormat, DefaultUnitFormat, 0))

\* the constructor call Operation(type, *args) that `call` makes
Construct(call, type, args) ==
  Returns(call, type, args, OperationInit(heap, type, args))

\* Operation(type, *args), which every builder function calls with its own
\* argument list
NewOperation(type, args) == Construct("Operation", type, args)

\* the tag of the builder a Python operator method calls
OperatorTag ==
  [add |-> ADD, sub |-> SUB, mul |-> MUL, truediv |-> DIV,
   floordiv |-> DIV2, pow |-> POW]

OperatorNames == DOMAIN OperatorTag

\* self <op> other: __add__, __sub__, __mul__, __truediv__, __floordiv__,
\* __pow__ call the builder with (self, other)
Operator(m, self, other) ==
  Construct("__" \o m \o "__", OperatorTag[m], <<Ref(self), other>>)

\* other <op> self calling the builder with (self, other)
ReflectedOperatorSwapped(m, self, other) ==
  Construct("__r" \o m \o "__", OperatorTag[m], <<Ref(self), other>>)

\* other <op> self for an other that is no node: __radd__, __rsub__,
\* __rmul__, __rtruediv__, __rfloordiv__, __rpow__ call the builder with
\* (other, self)
ReflectedOperator(m, self, other) ==
  Construct("__r" \o m \o "__", OperatorTag[m], <<other, Ref(self)>>)

\* -self, +self, abs(self)
UnaryOperator(t, self) == Construct("__" \o t \o "__", t, <<Ref(self)>>)

\* Expression(name, operation, unit)
NewExpression(name, operation, unit) ==
  Returns("Expression", "", <<Ref(operation)>>,
          ExpressionInit(heap, name, operation, unit, DefaultFormat,
                         DefaultUnitFormat, 0))

\* the heap h with set_format() called again on the expressions among its
\* first n objects
RECURSIVE Rederived(_, _)
Rederived(h, n) ==
  IF n = 0 THEN h
  ELSE IF IsExpression(h[n]) /\ ExpressionSetFormat(h, n).ok
       THEN Rederived(ExpressionSetFormat(h, n).val, n - 1)
       ELSE Rederived(h, n - 1)

\* an assignment after which every expression derives its format again
SetValueRederiving(i, v) ==
  /\ IsVariable(heap[i])
  /\ heap' = Rederived([heap EXCEPT ![i] = SetValueOf(heap[i], v)], Len(heap))
  /\ last' = Called("value", "", <<Ref(i)>>, "ok")

\* leaf.value = v
SetValue(i, v) ==
  /\ IsVariable(heap[i])
  /\ heap' = [heap EXCEPT ![i] = SetValueOf(heap[i], v)]
  /\ last' = Called("value", "", <<Ref(i)>>, "ok")

\* node.to_variable(newName) returning a live view of the node: an identity
\* operation over it
ToVariableAlias(i, newName) ==
  /\ ~IsVariable(heap[i])
  /\ heap' = Append(heap, [cls |-> "Operation", type |-> NONE_,
                           args |-> <<i>>, format |-> "%.4g",
                           exponent |-> 0])
  /\ last' = Called("to_variable", "", <<Ref(i)>>, "ok")

\* node.to_variable(newName) for an Operation or an Expression
ToVariable(i, newName) ==
  /\ ~IsVariable(heap[i])
  /\ Appends("to_variable", <<Ref(i)>>,
             IF IsOperation(heap[i])
             THEN OperationToVariable(heap, i, newName)
             ELSE ExpressionToVariable(heap, i, newName))

Ids == 1..Len(heap)

(***************************************************************************)
(* Spec: a session of client code that builds trees with the Python        *)
(* operators, wraps them in expressions, converts them to leaves and       *)
(* assigns leaf values.                                                    *)
(***************************************************************************)
Init ==
  /\ heap = <<>>
  /\ last = Called("init", "", <<>>, "ok")

\* what a session draws: leaf values and operators
SessionValues == {None, Whole(0), Whole(2)}

SessionOperators == {"add", "truediv"}

Next ==
  \/ /\ Len(heap) < MaxHeap
     /\ \/ \E value \in SessionValues : NewVariable("a", value, "m")
        \/ \E m \in SessionOperators, self \in Ids :
             \E other \in {Ref(i) : i \in Ids} \cup Literals :
               Operator(m, self, other)
        \/ \E m \in SessionOperators, self \in Ids :
             \E other \in Literals : ReflectedOperator(m, self, other)
        \/ \E self \in Ids : UnaryOperator(NEG, self)
        \/ \E operation \in Ids : NewExpression("E", operation, "m")
        \/ \E i \in Ids : ToVariable(i, "v")
     /\ Len(heap') <= MaxHeap
  \/ \E i \in Ids, v \in SessionValues : SetValue(i, v)

Spec == Init /\ [][Next]_vars

(***************************************************************************)
(* The fixture of SpecOp and SpecExpr: the leaves a and b, the operation   *)
(* a / b and the expression E that wraps it.                               *)
(***************************************************************************)
Fixture ==
  ExpressionOverLast(
    OperationInit(<<Leaf("a", Whole(2)), Leaf("b", Whole(2))>>, DIV,
                  <<Ref(1), Ref(2)>>).val,
    "E", "m", DefaultFormat, DefaultUnitFormat, 0).val

FixtureSize == Len(Fixture)

InitFixture ==
  /\ heap = Fixture
  /\ last = Called("init", "", <<>>, "ok")

(***************************************************************************)
(* SpecOp: the leaves of the fixture are assigned values, and then one     *)
(* operation is constructed: by the constructor with any tag and any       *)
(* argument list, or by a Python operator.                                 *)
(***************************************************************************)
NextOp ==
  /\ last.call \in {"init", "value"}
  /\ \/ \E i \in Ids, v \in Values : SetValue(i, v)
     \/ \E type \in Tags, args \in ArgLists(heap) : NewOperation(type, args)
     \/ \E m \in OperatorNames, self \in Ids, other \in Operands(heap) :
          Operator(m, self, other)
     \/ \E m \in OperatorNames, self \in Ids, other \in Literals :
          ReflectedOperator(m, self, other)

SpecOp == InitFixture /\ [][NextOp]_vars

(***************************************************************************)
(* SpecExpr: a session on the fixture that assigns leaf values and         *)
(* converts the operation and the expression to leaves.                    *)
(***************************************************************************)
NextExpr ==
  \/ /\ Len(heap) < FixtureSize + MaxExtra
     /\ \E i \in Ids : ToVariable(i, "v")
  \/ \E i \in Ids, v \in SessionValues : SetValue(i, v)

SpecExpr == InitFixture /\ [][NextExpr]_vars

(***************************************************************************)
(* Properties of the constructor, checked under SpecOp.                    *)
(***************************************************************************)
\* the calls that construct an operation
ConstructorCalls ==
  {"Operation"} \cup {"__" \o m \o "__" : m \in OperatorNames}
    \cup {"__r" \o m \o "__" : m \in OperatorNames} \cup {"__neg__"}

\* the last call constructed an operation node, which is the last object
Constructed == last.call \in ConstructorCalls /\ last.out = "ok"

NewNode == heap[Len(heap)]

\* n arguments match the declared arity of the supported tag t
ArityMatches(t, n) ==
  IF t \in supportedOperations1 THEN n = 1
  ELSE IF t \in supportedOperations2 THEN n = 2
  ELSE n >= 2

\* the last call was Operation(type, *args) with a supported tag and a
\* number of arguments that does not match the tag's arity
ArityMismatch ==
  /\ last.call = "Operation"
  /\ last.type \in supportedOperations
  /\ ~ArityMatches(last.type, Len(last.args))

\* C1: constructing an operation node whose number of arguments does not
\* match the declared arity of its tag (unary 1, binary 2, n-ary >= 2)
\* always fails, for Operation(type, *args) and so for every builder, which
\* passes its own arguments on
C1_ArityEnforced == ArityMismatch => last.out # "ok"

\* C1: a unary tag given two nodes, and an n-ary tag given no argument,
\* construct a node
C1_MalformedNodeBuilt ==
  /\ ArityMismatch
  /\ last.out = "ok"
  /\ IsOperation(NewNode)
  /\ NewNode.type = last.type
  /\ \/ last.type = NEG /\ Len(NewNode.args) = 2
     \/ last.type = ADD /\ Len(NewNode.args) = 0

\* the argument a of a constructor call is a leaf, an operation or a number
IsPlainOperand(a) ==
  \/ a.k \in {"int", "float"}
  \/ a.k = "ref" /\ ~IsExpression(heap[a.id])

\* C2: Operation(type, *args) with a tag outside the supported set fails with
\* LaTeXExpressionError and produces no node, whatever the arguments; every
\* supported tag is accepted: no supported tag raises that error, and with
\* leaves, operations and numbers as arguments the node is constructed
C2_TagChecked ==
  last.call = "Operation" =>
    /\ last.type \notin supportedOperations =>
         /\ last.out = "LaTeXExpressionError"
         /\ Len(heap) = FixtureSize
    /\ last.type \in supportedOperations =>
         /\ last.out # "LaTeXExpressionError"
         /\ (\A j \in 1..Len(last.args) : IsPlainOperand(last.args[j])) =>
              /\ last.out = "ok"
              /\ IsOperation(NewNode)
              /\ NewNode.type = last.type

\* C2: an unsupported tag was given with two leaves and was refused
C2_BogusTagRefused ==
  /\ last.call = "Operation"
  /\ last.type = BogusTag
  /\ last.args = <<Ref(1), Ref(2)>>
  /\ last.out = "LaTeXExpressionError"
  /\ Len(heap) = FixtureSize

\* the last call constructs with a supported tag and some argument that is
\* neither a node nor a number
BadArgument ==
  /\ last.call \in ConstructorCalls
  /\ last.type \in supportedOperations
  /\ \E j \in 1..Len(last.args) : last.args[j] = Other

FirstBad ==
  CHOOSE j \in 1..Len(last.args) :
    last.args[j] = Other /\ \A k \in 1..(j - 1) : last.args[k] # Other

\* the expressions given before the first bad argument whose evaluation
\* raises
FailingBefore ==
  {k \in 1..(FirstBad - 1) :
     /\ last.args[k].k = "ref"
     /\ IsExpression(heap[last.args[k].id])
     /\ ~IsSymbolic(heap, last.args[k].id)
     /\ ~Float(heap, last.args[k].id).ok}

\* C3 as amended: a construction with a supported tag and an argument that is
\* neither a node nor a number fails and produces no node, whatever the
\* position of the argument; the error is a TypeError unless a named
\* expression given before that argument cannot be evaluated, and then it is
\* the error of that evaluation
C3_BadArgumentFails ==
  BadArgument =>
    /\ last.out # "ok"
    /\ Len(heap) = FixtureSize
    /\ IF FailingBefore = {} THEN last.out = "TypeError"
       ELSE LET k == CHOOSE k \in FailingBefore :
                       \A m \in FailingBefore : k <= m
            IN  last.out = Float(heap, last.args[k].id).err

\* C3: a leaf and a bad argument were given, in either order, and the call
\* raised TypeError
C3_TypeErrorRaised ==
  /\ BadArgument
  /\ last.args \in {<<Ref(1), Other>>, <<Other, Ref(1)>>}
  /\ last.out = "TypeError"
  /\ Len(heap) = FixtureSize

\* C3 as stated: a construction with a supported tag and an argument that is
\* neither a node nor a number fails with TypeError and produces no node
C3_AlwaysTypeError ==
  BadArgument => last.out = "TypeError" /\ Len(heap) = FixtureSize

(***************************************************************************)
(* The arithmetic reading of a tree: its value as an ordinary expression,  *)
(* where that is defined.                                                  *)
(***************************************************************************)
Undefined == [def |-> FALSE]

Defined(v) == [def |-> TRUE, val |-> v]

Partial(r) == IF r.ok THEN Defined(r.val) ELSE Undefined

\* the objects h[i] refers to
Children(h, i) ==
  IF IsOperation(h[i]) THEN {h[i].args[j] : j \in 1..Len(h[i].args)}
  ELSE IF IsExpression(h[i]) THEN {h[i].operation}
  ELSE {}

RECURSIVE Descendants(_, _)
\* the transitive children of h[i]
Descendants(h, i) ==
  Children(h, i) \cup UNION {Descendants(h, c) : c \in Children(h, i)}

\* the leaves of the tree h[i]
LeavesOf(h, i) == {l \in Descendants(h, i) \cup {i} : IsVariable(h[l])}

\* no leaf of the tree h[i] lacks a value
NonSymbolicTree(h, i) == \A l \in LeavesOf(h, i) : h[l].value # None

RECURSIVE SumOf(_)
SumOf(vs) ==
  IF vs = <<>> THEN Whole(0)
  ELSE PyAdd(SumOf(SubSeq(vs, 1, Len(vs) - 1)), vs[Len(vs)])

RECURSIVE ProductOf(_)
ProductOf(vs) ==
  IF vs = <<>> THEN Whole(1)
  ELSE PyMul(ProductOf(SubSeq(vs, 1, Len(vs) - 1)), vs[Len(vs)])

RECURSIVE ExtremumOf(_, _)
\* the maximum (t = MAX) or minimum (t = MIN) of a non-empty vs
ExtremumOf(t, vs) ==
  IF Len(vs) = 1 THEN vs[1]
  ELSE LET m == ExtremumOf(t, SubSeq(vs, 1, Len(vs) - 1))
       IN  IF t = MAX THEN PyMax(m, vs[Len(vs)]) ELSE PyMin(m, vs[Len(vs)])

RECURSIVE Arith(_, _)
\* the value of the tree h[i] under the per-operator reference, undefined
\* where a child is missing or has no value, at a division by zero and
\* outside the domain of a function
Arith(h, i) ==
  LET o == h[i]
  IN  IF IsVariable(o)
      THEN (IF o.value.k \in {"num", "irr"} THEN Defined(o.value)
            ELSE Undefined)
      ELSE IF IsExpression(o) THEN Arith(h, o.operation)
      ELSE
        LET t == o.type
            n == Len(o.args)
            c == [j \in 1..n |-> Arith(h, o.args[j])]
            vs == [j \in 1..n |-> c[j].val]
        IN  IF t \in {ADD, MUL, MAX, MIN}
            THEN (IF \E j \in 1..n : ~c[j].def THEN Undefined
                  ELSE IF t = ADD THEN Defined(SumOf(vs))
                  ELSE IF t = MUL THEN Defined(ProductOf(vs))
                  ELSE IF n = 0 THEN Undefined
                  ELSE Defined(ExtremumOf(t, vs)))
            ELSE IF t \in {SUB, DIV, DIV2, POW, ROOT, LOG}
            THEN (IF n < 2 THEN Undefined
                  ELSE IF ~c[1].def \/ ~c[2].def THEN Undefined
                  ELSE LET a == c[1].val
                           b == c[2].val
                       IN  IF t = SUB THEN Defined(PySub(a, b))
                           ELSE IF t = DIV THEN Partial(PyTrueDiv(a, b))
                           ELSE IF t = DIV2 THEN Partial(PyFloorDiv(a, b))
                           ELSE IF t = POW THEN Partial(MathPow(a, b))
                           ELSE IF t = ROOT
                                THEN (IF IsZero(a) THEN Undefined
                                      ELSE Partial(MathPow(b,
                                             PyTrueDiv(Whole(1), a).val)))
                           ELSE Partial(LogRatio(b, a)))
            ELSE (IF n < 1 THEN Undefined
                  ELSE IF ~c[1].def THEN Undefined
                  ELSE LET a == c[1].val
                       IN  IF t \in {NONE_, POS, RBRACKETS, SBRACKETS,
                                     CBRACKETS, ABRACKETS}
                           THEN Defined(a)
                           ELSE IF t = NEG THEN Defined(PyNeg(a))
                           ELSE IF t = ABS THEN Defined(PyAbs(a))
                           ELSE IF t = SQR THEN Partial(MathPow(a, Whole(2)))
                           ELSE IF t = SQRT THEN Partial(MathSqrt(a))
                           ELSE IF t = LN THEN Partial(MathLog(a))
                           ELSE IF t = LOG10
                                THEN Partial(LogRatio(a, Whole(10)))
                           ELSE Defined(MathFun(t, a)))

\* C4: for every non-symbolic tree, result() is the value of the tree under
\* the per-operator reference (add the sum and mul the product of all
\* children, max/min the extremum, sub a-b, div a/b, div2 floor(a/b), power
\* a^b, root(a,b) b^(1/a), log(a,b) the logarithm of b to base a, neg, abs,
\* sqr, and identity, pos and the brackets a unchanged), and result() raises
\* where the reference has no value
C4_ResultIsArithmetic ==
  \A i \in Ids :
    (~IsVariable(heap[i]) /\ NonSymbolicTree(heap, i)) =>
      LET e == Arith(heap, i)
          r == Result(heap, i)
      IN  IF e.def THEN r = Ok(e.val) ELSE ~r.ok

\* C4: a / b - 3 was constructed with a = -8 and b = 2, and evaluates to -7
C4_TwoLevelsEvaluated ==
  /\ Constructed
  /\ last.type = SUB
  /\ last.args = <<Ref(3), IntLit(3)>>
  /\ heap[1].value = Whole(-8)
  /\ heap[2].value = Whole(2)
  /\ Result(heap, Len(heap)) = Ok(Whole(-7))

(***************************************************************************)
(* Properties of symbolic trees.                                           *)
(***************************************************************************)
\* C5: after any sequence of constructions and leaf value assignments, an
\* operation's is_symbolic() is true if and only if a leaf among its
\* transitive children has no value, and a named expression's is_symbolic()
\* equals its child's
C5_SymbolicIffLeaf ==
  \A i \in Ids :
    /\ IsOperation(heap[i]) =>
         (IsSymbolic(heap, i) <=>
            \E l \in Descendants(heap, i) :
              IsVariable(heap[l]) /\ heap[l].value = None)
    /\ IsExpression(heap[i]) =>
         (IsSymbolic(heap, i) <=> IsSymbolic(heap, heap[i].operation))

\* C5: an operation over an operation is symbolic through a leaf two levels
\* down, after that leaf was assigned
C5_SymbolicTwoLevelsDown ==
  /\ last.call = "value"
  /\ \E i \in Ids :
       /\ IsOperation(heap[i])
       /\ IsSymbolic(heap, i)
       /\ \A c \in Children(heap, i) : IsOperation(heap[c])
       /\ \E l \in Descendants(heap, i) : heap[l].value = None

\* C6: result() and float() of a symbolic leaf, and of any operation or named
\* expression that is transitively symbolic, fail with LaTeXExpressionError;
\* a non-symbolic leaf returns its stored value
C6_SymbolicEvaluationFails ==
  \A i \in Ids :
    /\ IsSymbolic(heap, i) =>
         /\ Result(heap, i) = Raise("LaTeXExpressionError")
         /\ Float(heap, i) = Raise("LaTeXExpressionError")
    /\ (IsVariable(heap[i]) /\ ~IsSymbolic(heap, i)) =>
         Result(heap, i) = Ok(heap[i].value)

\* C6: -a was constructed with a second child b that has no value: the node
\* is symbolic and evaluates to a number
C6_SymbolicYetEvaluates ==
  /\ Constructed
  /\ last.type = NEG
  /\ last.args = <<Ref(1), Ref(2)>>
  /\ heap[1].value = Whole(2)
  /\ heap[2].value = None
  /\ IsSymbolic(heap, Len(heap))
  /\ Result(heap, Len(heap)) = Ok(Whole(-2))

\* C7: for every leaf whose value is None, is_symbolic() is true, and
\* str_symbolic() and str_result() both return the brace-wrapped name
C7_SymbolicLeafRendersName ==
  \A i \in Ids :
    (IsVariable(heap[i]) /\ heap[i].value = None) =>
      /\ IsSymbolic(heap, i)
      /\ Str(heap, i, "str_symbolic") = Ok("{" \o heap[i].name \o "}")
      /\ Str(heap, i, "str_result") = Ok("{" \o heap[i].name \o "}")

\* C7: a leaf named a was assigned None, and renders as {a}
C7_LeafAssignedNone ==
  /\ last.call = "value"
  /\ LET i == last.args[1].id
     IN  /\ heap[i].name = "a"
         /\ heap[i].value = None
         /\ Str(heap, i, "str_result") = Ok("{a}")

(***************************************************************************)
(* Properties of sharing and of conversion to a leaf.                      *)
(***************************************************************************)
\* a constructor call that returns: the new node is the last object of heap'
ConstructStep ==
  /\ last'.call \in ConstructorCalls
  /\ last'.out = "ok"
  /\ Len(heap') > Len(heap)

\* every leaf or operation given to the constructor is the child itself, no
\* copy of it
ChildrenByReference ==
  \A j \in 1..Len(last'.args) :
    LET a == last'.args[j]
    IN  (a.k = "ref" /\ ~IsExpression(heap[a.id])) =>
          heap'[Len(heap')].args[j] = a.id

\* the parents of the leaf x: the nodes that reach it
ParentsOf(h, x) == {p \in 1..Len(h) : x \in Descendants(h, p)}

\* leaf.value = v for the leaf last'.args[1].id
AssignStep == last'.call = "value" /\ Len(heap') = Len(heap)

\* after the assignment every parent of the leaf, itself unchanged, evaluates
\* with the new value, and the rendering of an operation with its values
\* substituted changes with the value
ParentsSeeAssignment ==
  LET x == last'.args[1].id
  IN  \A p \in ParentsOf(heap, x) :
        /\ heap'[p] = heap[p]
        /\ x \in Descendants(heap', p)
        /\ NonSymbolicTree(heap', p) =>
             LET e == Arith(heap', p)
             IN  IF e.def THEN Result(heap', p) = Ok(e.val)
                 ELSE ~Result(heap', p).ok
        /\ IsSymbolic(heap', p) <=> ~NonSymbolicTree(heap', p)
        /\ (IsOperation(heap[p]) /\ heap'[x].value # heap[x].value) =>
             /\ Str(heap', p, "str_substituted").ok
             /\ Str(heap', p, "str_substituted")
                  # Str(heap, p, "str_substituted")

\* C8: nodes are referenced, not copied: a leaf given to two constructor
\* calls is the child of both parents, and assigning a new value to it
\* changes what every parent renders and evaluates the next time
C8_SharedLeafSeenByParents ==
  [][/\ ConstructStep => ChildrenByReference
     /\ AssignStep => ParentsSeeAssignment]_vars

\* C8: a leaf with two different parents was assigned the value 2, and both
\* parents evaluate
C8_TwoParentsAssigned ==
  /\ last.call = "value"
  /\ LET x == last.args[1].id
     IN  /\ heap[x].value = Whole(2)
         /\ \E p, q \in Ids :
              /\ p # q
              /\ IsOperation(heap[p]) /\ IsOperation(heap[q])
              /\ x \in Children(heap, p) /\ x \in Children(heap, q)
              /\ Result(heap, p).ok /\ Result(heap, q).ok

\* node.to_variable(...) returns: the new leaf is the last object of heap'
ConvertStep ==
  /\ last'.call = "to_variable"
  /\ last'.out = "ok"
  /\ Len(heap') = Len(heap) + 1

\* the returned leaf holds the result of the source at the time of the call
\* (no value when a named expression is symbolic); it is a new object that
\* no node refers to, and the source is left as it was
SnapshotTaken ==
  LET src == last'.args[1].id
      v == Len(heap')
  IN  /\ IsVariable(heap'[v])
      /\ heap'[v].value = IF IsSymbolic(heap, src) THEN None
                          ELSE Float(heap, src).val
      /\ \A n \in 1..Len(heap) : heap'[n] = heap[n]
      /\ \A n \in 1..Len(heap') : v \notin Descendants(heap', n)

\* an assignment changes the assigned leaf only, and no result of a tree
\* that does not hold the leaf
AssignmentFrame ==
  LET x == last'.args[1].id
  IN  /\ \A n \in Ids \ {x} : heap'[n] = heap[n]
      /\ \A n \in Ids :
           (n # x /\ x \notin Descendants(heap, n)) =>
             /\ Result(heap', n) = Result(heap, n)
             /\ Str(heap', n, "str_result") = Str(heap, n, "str_result")

\* C9: the leaf returned by to_variable() on a named expression or an
\* operation holds the node's numeric result at conversion time and is an
\* independent leaf: no later assignment to a leaf of the source tree changes
\* its value, and no assignment to it changes the source tree's result
C9_ToVariableIndependent ==
  [][/\ ConvertStep => SnapshotTaken
     /\ AssignStep => AssignmentFrame]_vars

\* C9: E = a / b was converted when it was 1, then a leaf of E was assigned:
\* E evaluates to 0 and the returned leaf still holds 1
C9_SnapshotOutlivesAssignment ==
  /\ last.call = "value"
  /\ last.args[1].id \in {1, 2}
  /\ Result(heap, FixtureSize) = Ok(Whole(0))
  /\ \E v \in Ids :
       /\ v > FixtureSize
       /\ heap[v].name = "v"
       /\ heap[v].unit = "m"
       /\ heap[v].value = Whole(1)

(***************************************************************************)
(* Properties of the reflected operators, checked under SpecOp.            *)
(***************************************************************************)
\* the last call was k <op> a for the operator method m, and returned
ReflectedCall(m) == last.call = "__r" \o m \o "__" /\ last.out = "ok"

\* the literal k and the node a of the last call, whatever their order
LiteralOperand ==
  last.args[CHOOSE j \in 1..Len(last.args) : last.args[j].k = "int"].n

NodeOperand ==
  last.args[CHOOSE j \in 1..Len(last.args) : last.args[j].k = "ref"].id

\* k <op> v in Python arithmetic
Applied(m, k, v) ==
  IF m = "sub" THEN Ok(PySub(k, v))
  ELSE IF m = "truediv" THEN PyTrueDiv(k, v)
  ELSE IF m = "floordiv" THEN PyFloorDiv(k, v)
  ELSE IF m = "pow" THEN MathPow(k, v)
  ELSE IF m = "add" THEN Ok(PyAdd(v, k))
  ELSE Ok(PyMul(v, k))

\* C10: reflected operators keep operand order: for a node a (leaf, operation
\* or named expression) and a numeric literal k, k - a, k / a, k // a and
\* k ** a build the operation with k as first operand and a as second and
\* evaluate to k-a, k/a, floor(k/a), k^a; k + a and k * a evaluate to the
\* value of a + k and a * k
C10_ReflectedKeepsOrder ==
  \A m \in OperatorNames :
    ReflectedCall(m) =>
      LET k == LiteralOperand
          a == NodeOperand
          first == heap[NewNode.args[1]]
          second == NewNode.args[2]
          va == Float(heap, a)
      IN  /\ IsOperation(NewNode)
          /\ NewNode.type = OperatorTag[m]
          /\ Len(NewNode.args) = 2
          /\ IsVariable(first) /\ first.value = Whole(k)
          /\ IF IsExpression(heap[a])
             THEN /\ IsVariable(heap[second])
                  /\ heap[second].name = heap[a].name
                  /\ va.ok => heap[second].value = va.val
             ELSE second = a
          /\ va.ok => Result(heap, Len(heap)) = Applied(m, Whole(k), va.val)

\* C10: 3 - a / b was constructed with a = -8 and b = 2, and evaluates to 7
C10_ReflectedSubtraction ==
  /\ ReflectedCall("sub")
  /\ NodeOperand = 3
  /\ LiteralOperand = 3
  /\ heap[1].value = Whole(-8)
  /\ heap[2].value = Whole(2)
  /\ Result(heap, Len(heap)) = Ok(Whole(7))

(***************************************************************************)
(* Rendering and evaluation calls of client code.                          *)
(***************************************************************************)
Renderings ==
  {"str_symbolic", "str_substituted", "str_result", "str_result_with_unit",
   "__str__"}

Evaluations == {"result", "__float__"}

\* the record of a call on the object i that returned or raised r: "ok" or
\* the exception in out, and what was returned in ret
Returned(call, i, r) ==
  [call |-> call, type |-> "", args |-> <<Ref(i)>>, out |-> Outcome(r),
   ret |-> r]

\* a render method that leaves the receiver with the exponent -2
RenderRescaling(i, what) ==
  /\ heap' = [heap EXCEPT ![i].exponent = -2]
  /\ last' = Returned(what, i, Str(heap, i, what))

\* a render method, with str_substituted() of a named expression handed to
\* str_result() of its child
RenderDelegating(i, what) ==
  /\ heap' = heap
  /\ last' = Returned(what, i,
                      IF IsExpression(heap[i]) /\ what = "str_substituted"
                      THEN Str(heap, heap[i].operation, "str_result")
                      ELSE Str(heap, i, what))

\* a render method of the object i: the methods assign nothing
Render(i, what) ==
  /\ heap' = heap
  /\ last' = Returned(what, i, Str(heap, i, what))

\* result() and float() that leave the receiver with the format %.0f
EvaluateReformatting(i, how) ==
  /\ heap' = [heap EXCEPT ![i].format = "%.0f"]
  /\ last' = Returned(how, i, IF how = "result" THEN Result(heap, i)
                              ELSE Float(heap, i))

\* x.result() and float(x) for the object i: the methods assign nothing
Evaluate(i, how) ==
  /\ heap' = heap
  /\ last' = Returned(how, i, IF how = "result" THEN Result(heap, i)
                              ELSE Float(heap, i))

(***************************************************************************)
(* SpecShow: a session on the fixture that assigns leaf values and renders *)
(* and evaluates the leaves, the operation and the expression.             *)
(***************************************************************************)
NextShow ==
  \/ \E i \in Ids, v \in Values : SetValue(i, v)
  \/ \E i \in Ids, what \in Renderings : Render(i, what)
  \/ \E i \in Ids, how \in Evaluations : Evaluate(i, how)

SpecShow == InitFixture /\ [][NextShow]_vars

(***************************************************************************)
(* SpecLit: the leaves of the fixture are assigned values, and then a       *)
(* Python operator is applied to an object and a number.                   *)
(***************************************************************************)
\* the numbers client code writes as operands: 2, 2.0 and 1.23456
NumberLiterals ==
  {IntLit(2), FloatLit(Whole(2)), FloatLit(Rat(123456, 100000))}

NextLit ==
  /\ last.call \in {"init", "value"}
  /\ \/ \E i \in Ids, v \in SessionValues : SetValue(i, v)
     \/ \E m \in OperatorNames, self \in Ids, other \in NumberLiterals :
          Operator(m, self, other)
     \/ \E m \in OperatorNames, self \in Ids, other \in NumberLiterals :
          ReflectedOperator(m, self, other)

SpecLit == InitFixture /\ [][NextLit]_vars

(***************************************************************************)
(* SpecLeaf: a leaf is constructed with a value, a format and an exponent, *)
(* is assigned values, rendered and evaluated, and so is the operation     *)
(* +leaf.                                                                  *)
(***************************************************************************)
\* a keyword argument of a constructor call
Keyword(k, v) == [k |-> k, v |-> v]

\* Variable(name, value, unit, format=format, exponent=exponent)
NewVariableWith(name, value, unit, format, exponent) ==
  Appends("Variable",
          <<Keyword("value", value), Keyword("format", format),
            Keyword("exponent", exponent)>>,
          VariableInit(name, value, unit, format, DefaultUnitFormat,
                       exponent))

\* the values of the leaf: on both sides of -1000, 0 and 1000, and 1.23456
LeafValues ==
  {None, Whole(-12345), Whole(-1000), Whole(-8), Whole(0), Whole(999),
   Whole(1000), Whole(12345), Rat(123456, 100000)}

\* the values assigned to the leaf: those, and a string that is no numeral
AssignedValues == LeafValues \cup {StrVal("x")}

LeafFormats == {"%.4g", "%.4f"}

LeafExponents == {0, -2}

NextLeaf ==
  \/ /\ heap = <<>>
     /\ \E value \in LeafValues, format \in LeafFormats :
          \E exponent \in LeafExponents :
            NewVariableWith("F", value, "kN", format, exponent)
  \/ /\ Len(heap) = 1
     /\ UnaryOperator(POS, 1)
  \/ \E i \in Ids, v \in AssignedValues : SetValue(i, v)
  \/ \E i \in Ids, what \in Renderings : Render(i, what)
  \/ \E i \in Ids, how \in Evaluations : Evaluate(i, how)

SpecLeaf == Init /\ [][NextLeaf]_vars

(***************************************************************************)
(* SpecNamed: the leaves a = 2 and F without a value, the operation a / F  *)
(* and the expression E that wraps it while it is symbolic. A session      *)
(* assigns the leaves, wraps a leaf or the operation in a second           *)
(* expression G, and renders and evaluates the operations and expressions. *)
(***************************************************************************)
NamedFixture ==
  ExpressionOverLast(
    OperationInit(<<Leaf("a", Whole(2)), Leaf("F", None)>>, DIV,
                  <<Ref(1), Ref(2)>>).val,
    "E", "m", DefaultFormat, DefaultUnitFormat, 0).val

NamedSize == Len(NamedFixture)

InitNamed ==
  /\ heap = NamedFixture
  /\ last = Called("init", "", <<>>, "ok")

\* Expression(name, operation, unit, exponent=exponent)
NewExpressionWith(name, operation, unit, exponent) ==
  Returns("Expression", "",
          <<Ref(operation), Keyword("exponent", exponent)>>,
          ExpressionInit(heap, name, operation, unit, DefaultFormat,
                         DefaultUnitFormat, exponent))

\* the values of the leaves: results on both sides of 0 and of 1000, and a
\* divisor 0
NamedValues == {None, Whole(-8), Whole(0), Whole(2), Whole(2000)}

NextNamed ==
  \/ \E i \in Ids, v \in NamedValues : SetValue(i, v)
  \/ /\ Len(heap) = NamedSize
     /\ \E operation \in Ids, exponent \in LeafExponents :
          /\ ~IsExpression(heap[operation])
          /\ NewExpressionWith("G", operation, "m", exponent)
  \/ \E i \in Ids, what \in Renderings :
       ~IsVariable(heap[i]) /\ Render(i, what)
  \/ \E i \in Ids, how \in Evaluations :
       ~IsVariable(heap[i]) /\ Evaluate(i, how)

SpecNamed == InitNamed /\ [][NextNamed]_vars

(***************************************************************************)
(* Properties of the promotion of number operands, checked under SpecLit.  *)
(***************************************************************************)
IsLiteral(a) == a.k \in {"int", "float"}

\* the last call applied a Python operator to an object and a number, and
\* returned the node
PromotedCall ==
  /\ last.call \in ConstructorCalls
  /\ last.out = "ok"
  /\ \E j \in 1..Len(last.args) : IsLiteral(last.args[j])

\* the value of the number a
LiteralValue(a) == IF a.k = "int" THEN Whole(a.n) ELSE a.x

\* repr(x) of a float x with at most six decimals: the decimals that are
\* needed, and at least one
FloatRepr(x) ==
  LET k == CHOOSE k \in 1..6 :
             /\ (Abs(x.n) * 10 ^ k) % x.d = 0
             /\ \A m \in 1..(k - 1) : (Abs(x.n) * 10 ^ m) % x.d # 0
      scaled == (Abs(x.n) * 10 ^ k) \div x.d
  IN  (IF x.n < 0 THEN "-" ELSE "") \o ToString(scaled \div 10 ^ k) \o "."
        \o Pad(ToString(scaled % 10 ^ k), k)

\* what print shows for the number a
PrintForm(a) == IF a.k = "int" THEN ToString(a.n) ELSE FloatRepr(a.x)

\* the number a written with at most four significant digits
ShortForm(a) ==
  IF a.k = "int" THEN ToString(a.n) ELSE PercentFormat("%.4g", a.x)

\* the operand j of the last call became a new leaf named name that holds
\* the number and has no unit
PromotedAs(j, name) ==
  LET l == NewNode.args[j]
  IN  /\ l > FixtureSize
      /\ \A p \in 1..(Len(heap) - 1) : l \notin Children(heap, p)
      /\ IsVariable(heap[l])
      /\ heap[l].name = name
      /\ heap[l].value = LiteralValue(last.args[j])
      /\ heap[l].unit = ""
      /\ ~IsSymbolic(heap, l)

\* the node is symbolic exactly when an operand that is no number is
SymbolicByNodesOnly ==
  IsSymbolic(heap, Len(heap)) <=>
    \E j \in 1..Len(last.args) :
      ~IsLiteral(last.args[j]) /\ IsSymbolic(heap, NewNode.args[j])

\* a + k and k + a evaluate to the sum of the result of a and the number k
SumWithLiteral ==
  \A j, k \in 1..Len(last.args) :
    (/\ last.type = ADD
     /\ ~IsLiteral(last.args[j])
     /\ IsLiteral(last.args[k])
     /\ Float(heap, NewNode.args[j]).ok) =>
      Float(heap, Len(heap)) =
        Ok(PyAdd(Float(heap, NewNode.args[j]).val,
                 LiteralValue(last.args[k])))

\* C11 as amended: an int or float operand is replaced, when the operation
\* node is constructed, by a new non-symbolic leaf without unit whose value
\* is the number and whose name is the number written with %d (an int) or
\* with %.4g (a float); a + k evaluates to the sum, and the node is symbolic
\* exactly when its other operand is
C11_LiteralPromoted ==
  PromotedCall =>
    /\ \A j \in 1..Len(last.args) :
         IsLiteral(last.args[j]) => PromotedAs(j, ShortForm(last.args[j]))
    /\ SymbolicByNodesOnly
    /\ SumWithLiteral

\* C11 as stated: the name of the new leaf is the print form of the number
C11_NamedByPrintForm ==
  PromotedCall =>
    /\ \A j \in 1..Len(last.args) :
         IsLiteral(last.args[j]) => PromotedAs(j, PrintForm(last.args[j]))
    /\ SymbolicByNodesOnly
    /\ SumWithLiteral

\* C11: a + 2 was constructed for the leaf a = 2, and evaluates to 4
C11_LeafPlusTwo ==
  /\ PromotedCall
  /\ last.call = "__add__"
  /\ last.args = <<Ref(1), IntLit(2)>>
  /\ heap[1].value = Whole(2)
  /\ heap[NewNode.args[2]].name = "2"
  /\ Float(heap, Len(heap)) = Ok(Whole(4))

(***************************************************************************)
(* Properties of the render and evaluate calls, checked under SpecShow.    *)
(***************************************************************************)
\* a step that calls a render method, result() or float()
ReadStep == last'.call \in Renderings \cup Evaluations

\* the call returned a whole value, or raised and returned nothing
WholeOrNothing(c) ==
  IF c.out = "ok"
  THEN /\ c.ret.ok
       /\ DOMAIN c.ret = {"ok", "val"}
       /\ c.call \in Renderings => c.ret.val \in STRING
  ELSE c.ret = Raise(c.out)

\* C12: a render call (str_symbolic, str_substituted, str_result,
\* str_result_with_unit, str()) or an evaluate call (result, float()) on any
\* node either returns a complete result or fails with an error and no
\* output, and in both cases leaves the state of every node unchanged
C12_ReadsChangeNothing ==
  [][ReadStep => (heap' = heap /\ WholeOrNothing(last'))]_vars

\* C12: str(E) failed, on the division by b = 0, and the fixture is as the
\* assignment left it
C12_FailedRenderLeftTree ==
  /\ last.call = "__str__"
  /\ last.args = <<Ref(FixtureSize)>>
  /\ last.out = "ZeroDivisionError"
  /\ heap = [Fixture EXCEPT ![2].value = Whole(0)]

\* the object of the last call
Receiver == last.args[1].id

MagnitudeBelow(v, m) == Abs(v.n) < m * v.d

\* the default format of a leaf that holds the number v: four significant
\* digits for |v| < 1000, an integer otherwise
DefaultFormatFor(v) == IF MagnitudeBelow(v, 1000) THEN "%.4g" ELSE "%.0f"

\* the last call assigned the leaf a number
NumberAssigned ==
  /\ last.call = "value"
  /\ IsVariable(heap[Receiver])
  /\ IsNum(heap[Receiver].value)

\* C14: whenever a leaf's value is reassigned, its default format is derived
\* again from the new value: after any sequence of assignments the format of
\* the leaf is the default by magnitude for its current value, never one left
\* from an earlier value
C14_FormatFollowsValue ==
  NumberAssigned =>
    heap[Receiver].format = DefaultFormatFor(heap[Receiver].value)

\* C14: the leaf was assigned 12345 and still has the format %.4g of the
\* smaller value it was constructed with
C14_StaleFormat ==
  /\ NumberAssigned
  /\ heap[Receiver].value = Whole(12345)
  /\ heap[Receiver].format = "%.4g"

\* the last call constructed a leaf with a number as its value
LeafConstructed ==
  /\ last.call = "Variable"
  /\ last.out = "ok"
  /\ Len(last.args) = 3
  /\ IsNum(last.args[1].v)

\* C15: a leaf constructed with the number v has the four significant digit
\* format when |v| < 1000 and the integer format otherwise, for negative v as
\* for positive v
C15_DefaultByMagnitude ==
  LeafConstructed =>
    /\ NewNode.value = last.args[1].v
    /\ NewNode.format = DefaultFormatFor(NewNode.value)

\* C15: the leaf constructed with -12345 has the four significant digit
\* format
C15_NegativeKeepsFourDigits ==
  /\ LeafConstructed
  /\ NewNode.value = Whole(-12345)
  /\ NewNode.format = "%.4g"

\* the last call was str_result() on a leaf that holds a number and has the
\* exponent 0
LeafResultRendered ==
  /\ last.call = "str_result"
  /\ IsVariable(heap[Receiver])
  /\ IsNum(heap[Receiver].value)
  /\ heap[Receiver].exponent = 0

Parenthesised(s) == "\\left( " \o s \o " \\right)"

\* the representation of the number v that its magnitude selects
ByMagnitude(v) ==
  IF v.n < (-1000) * v.d THEN Parenthesised(SpaceFormat("f0", v))
  ELSE IF v.n < 0 THEN Parenthesised(SpaceFormat("g4", v))
  ELSE IF v.n < 1000 * v.d THEN SpaceFormat("g4", v)
  ELSE SpaceFormat("f0", v)

\* what Python prints for the values of the leaf
PrintedResults ==
  Whole(-12345) :> "\\left( -12345 \\right)"
    @@ Whole(-1000) :> "\\left( -1000 \\right)"
    @@ Whole(-8) :> "\\left( -8 \\right)"
    @@ Whole(0) :> " 0"
    @@ Whole(999) :> " 999"
    @@ Whole(1000) :> " 1000"
    @@ Whole(12345) :> " 12345"
    @@ Rat(123456, 100000) :> " 1.235"

OperationResultRendered ==
  /\ last.call = "str_result"
  /\ IsOperation(heap[Receiver])
  /\ ~IsSymbolic(heap, Receiver)
  /\ last.out = "ok"

\* a leaf that holds the number r, with the format and the exponent of o
LeafHolding(r, o) ==
  [cls |-> "Variable", name |-> "r", value |-> r, unit |-> "",
   format |-> o.format, unitFormat |-> DefaultUnitFormat,
   exponent |-> o.exponent]

\* C17: str_result() of an operation that is not symbolic formats its result
\* exactly as the leaf formatter does: the markup is that of str_result() of
\* a leaf that holds the result, with the same format and exponent
C17_FormatsAsLeaf ==
  OperationResultRendered =>
    last.ret.val =
      VariableStrResult(LeafHolding(Float(heap, Receiver).val,
                                    heap[Receiver]))

\* C17: the operation +F with F = -8 was rendered without the spaces that
\* the leaf F has inside its parentheses
C17_NegativeResultWithoutSpaces ==
  /\ OperationResultRendered
  /\ heap[1].value = Whole(-8)
  /\ last.ret.val = "\\left(-8\\right)"
  /\ VariableStrResult(heap[1]) = "\\left( -8 \\right)"

\* '%.4f' % x for a number x >= 0
FixedFour(x) ==
  LET q == RoundHalfEven(x.n * 10000, x.d)
  IN  ToString(q \div 10000) \o "." \o Pad(ToString(q % 10000), 4)

\* the format given to the constructor in the last call
GivenFormat == last.args[2].v

\* C18: a leaf constructed with an explicit format and a number as its value
\* keeps that format and renders its value with it: with format='%.4f' the
\* result of a value v >= 0 is '%.4f' % v (2.5643 for 2.564345)
C18_ExplicitFormatKept ==
  LeafConstructed =>
    /\ NewNode.format = GivenFormat
    /\ (GivenFormat = "%.4f" /\ NewNode.exponent = 0 /\ NewNode.value.n >= 0)
         => VariableStrResult(NewNode)
              \in {FixedFour(NewNode.value), " " \o FixedFour(NewNode.value)}

\* C18: the leaf constructed with 1.23456 and format='%.4f' has the format
\* %.4g and renders its result with four significant digits
C18_ExplicitFormatReplaced ==
  /\ LeafConstructed
  /\ GivenFormat = "%.4f"
  /\ NewNode.value = Rat(123456, 100000)
  /\ NewNode.exponent = 0
  /\ NewNode.format = "%.4g"
  /\ FixedFour(NewNode.value) = "1.2346"
  /\ VariableStrResult(NewNode) = " 1.235"

\* the last call was the render method what of a leaf
LeafRendered(what) == last.call = what /\ IsVariable(heap[Receiver])

\* the result form of the leaf i, the separator and its unit in \mathrm{}
ResultWithUnit(i) ==
  Str(heap, i, "str_result").val \o " \\ " \o "\\mathrm{" \o heap[i].unit
    \o "}"

ExpressionShown == last.call = "__str__" /\ IsExpression(heap[Receiver])

\* the rendering what of the child of the expression of the last call
ChildForm(what) == Str(heap, heap[Receiver].operation, what)

\* C20: str(expression) of a named expression is the one-equals form
\* "name = <child symbolic form>" when the expression is symbolic, and
\* otherwise the chain "name = <child symbolic form> = <child substituted
\* form> = <result with unit>" (which needs the result: the call raises when
\* the evaluation does)
C20_ExpressionFullRendering ==
  ExpressionShown =>
    IF IsSymbolic(heap, Receiver)
    THEN last.ret = Ok(heap[Receiver].name \o " = "
                         \o ChildForm("str_symbolic").val)
    ELSE /\ last.ret.ok <=> Float(heap, Receiver).ok
         /\ last.ret.ok =>
              last.ret.val =
                heap[Receiver].name \o " = " \o ChildForm("str_symbolic").val
                  \o " = " \o ChildForm("str_substituted").val \o " = "
                  \o Str(heap, Receiver, "str_result_with_unit").val

\* C20: str(E) was called with a = -8 and b = 2, and gave the chain of four
\* parts
C20_ChainShown ==
  /\ ExpressionShown
  /\ heap[1].value = Whole(-8)
  /\ heap[2].value = Whole(2)
  /\ last.ret =
       Ok("E = \\frac{ {a} }{ {b} } = "
            \o "\\frac{ \\left( -8 \\right) \\ \\mathrm{} }{  2 \\ \\mathrm{} }"
            \o " = \\left(-4\\right) \\ \\mathrm{m}")

\* the last call was str_substituted() of a named expression
ExpressionSubstituted ==
  last.call = "str_substituted" /\ IsExpression(heap[Receiver])

\* the expression of the last call has the format and exponent of its child
FormatsAsChild ==
  /\ heap[Receiver].format = heap[heap[Receiver].operation].format
  /\ heap[Receiver].exponent = heap[heap[Receiver].operation].exponent

MathFixture == <<Leaf("a", Whole(25)), Leaf("b", Whole(2))>>

MathSize == Len(MathFixture)

InitMath ==
  /\ heap = MathFixture
  /\ last = Called("init", "", <<>>, "ok")

MathValues == {None, Whole(-4), Whole(0), Whole(2), Whole(25)}

MathTags == {SQRT, DIV, DIV2}

MathArgs == {<<Ref(1)>>, <<Ref(1), Ref(2)>>, <<Ref(2), Ref(1)>>}

NextMath ==
  \/ \E i \in Ids, v \in MathValues : SetValue(i, v)
  \/ /\ Len(heap) = MathSize
     /\ \E type \in MathTags, args \in MathArgs : NewOperation(type, args)
  \/ /\ Len(heap) = MathSize + 1
     /\ NewExpression("E", MathSize + 1, "m")
  \/ \E i \in Ids, what \in Renderings : ~IsVariable(heap[i]) /\ Render(i, what)
  \/ \E i \in Ids, how \in Evaluations : ~IsVariable(heap[i]) /\ Evaluate(i, how)

SpecMath == InitMath /\ [][NextMath]_vars

(***************************************************************************)
(* SpecValue: leaves are constructed with and assigned numbers, strings    *)
(* and None, and are rendered and evaluated.                               *)
(***************************************************************************)
GivenValues ==
  {None, Whole(0), Whole(2), Whole(2000), StrVal("x"), StrVal(" x "),
   StrVal(" 7 ")}

NextValue ==
  \/ /\ Len(heap) < MaxExtra
     /\ \E value \in GivenValues :
          NewVariableWith("F", value, "kN", DefaultFormat, 0)
  \/ \E i \in Ids, v \in GivenValues : SetValue(i, v)
  \/ \E i \in Ids, what \in Renderings : Render(i, what)
  \/ \E i \in Ids, how \in Evaluations : Evaluate(i, how)

SpecValue == Init /\ [][NextValue]_vars

(***************************************************************************)
(* SpecSnap: the leaves a and b of the fixture are assigned values, one    *)
(* operation is built with a Python operator over the objects of the       *)
(* fixture, the expression E among them, and the nodes are evaluated.      *)
(***************************************************************************)
NextSnap ==
  \/ \E i \in 1..2, v \in SessionValues : SetValue(i, v)
  \/ /\ Len(heap) = FixtureSize
     /\ \E m \in SessionOperators, self \in Ids, other \in Ids :
          Operator(m, self, Ref(other))
  \/ \E i \in Ids, how \in Evaluations : ~IsVariable(heap[i]) /\ Evaluate(i, how)

SpecSnap == InitFixture /\ [][NextSnap]_vars

(***************************************************************************)
(* SpecTree: the leaves a, b and c under trees that differ in structure    *)
(* only, a - (b + c) and (a - b) + c, a * (b + c) and (a * b) + c, with    *)
(* the bracket node and the power; the leaves are assigned values and the  *)
(* trees are rendered and evaluated.                                       *)
(***************************************************************************)
TreeLeaves == <<Leaf("a", Whole(2)), Leaf("b", Whole(2)), Leaf("c", Whole(2))>>

\* the heap h with the node Operation(type, *args) appended
With(h, type, args) == OperationInit(h, type, args).val

\* 4: b + c, 5: a - (b + c), 6: a - b, 7: (a - b) + c
Sums ==
  With(With(With(With(TreeLeaves, ADD, <<Ref(2), Ref(3)>>),
                 SUB, <<Ref(1), Ref(4)>>),
            SUB, <<Ref(1), Ref(2)>>),
       ADD, <<Ref(6), Ref(3)>>)

\* 8: r_brackets(b + c), 9: a - r_brackets(b + c)
Bracketed ==
  With(With(Sums, RBRACKETS, <<Ref(4)>>), SUB, <<Ref(1), Ref(8)>>)

\* 10: a * b, 11: (a * b) + c, 12: a * (b + c), 13: (b + c) ** a
TreeFixture ==
  With(With(With(With(Bracketed, MUL, <<Ref(1), Ref(2)>>),
                 ADD, <<Ref(10), Ref(3)>>),
            MUL, <<Ref(1), Ref(4)>>),
       POW, <<Ref(4), Ref(1)>>)

InitTree ==
  /\ heap = TreeFixture
  /\ last = Called("init", "", <<>>, "ok")

NextTree ==
  \/ \E i \in Ids, v \in Values : SetValue(i, v)
  \/ \E i \in Ids, what \in Renderings : ~IsVariable(heap[i]) /\ Render(i, what)
  \/ \E i \in Ids, how \in Evaluations : ~IsVariable(heap[i]) /\ Evaluate(i, how)

SpecTree == InitTree /\ [][NextTree]_vars

(***************************************************************************)
(* Properties of the named expression, checked under SpecNamed.            *)
(***************************************************************************)
\* the last call was str_result() of a named expression
ExpressionResultRendered ==
  last.call = "str_result" /\ IsExpression(heap[Receiver])

\* the number r formatted with the format f and the exponent e of a node
NodeFormatted(f, e, r) ==
  IF e = 0 THEN NodeNumeral(f, r) ELSE Scientific(f, r, e)

\* C22: str_result() of a named expression returns the substituted form of
\* its child (valued leaves as values, the others as names) when the
\* expression is symbolic, and otherwise its own numeric result formatted
\* with the expression's own format and exponent, not the child's
C22_ExpressionResultForm ==
  ExpressionResultRendered =>
    IF IsSymbolic(heap, Receiver)
    THEN last.ret = ChildForm("str_substituted")
    ELSE IF Arith(heap, Receiver).def
         THEN last.ret = Ok(NodeFormatted(heap[Receiver].format,
                                          heap[Receiver].exponent,
                                          Arith(heap, Receiver).val))
         ELSE ~last.ret.ok

\* C22: G, wrapped with the result 1000 and so with the format %.0f, was
\* rendered with the result -0.004 in its own format, where its child gives
\* four significant digits
C22_OwnFormatUsed ==
  /\ ExpressionResultRendered
  /\ Receiver > NamedSize
  /\ heap[Receiver].format = "%.0f"
  /\ last.ret = Ok("\\left(-0\\right)")
  /\ ChildForm("str_result") = Ok("\\left(-0.004\\right)")

\* the last call was result() or float() of a named expression
ExpressionEvaluated ==
  last.call \in Evaluations /\ IsExpression(heap[Receiver])

\* the expression E of the fixture, wrapped while its leaf F had no value
WrappedSymbolic == NamedSize

\* C23: a named expression follows its child tree: in every state reached by
\* assignments to the leaves it is symbolic exactly when a leaf of the tree
\* has no value now, result() and float() give the child's current result
\* (and fail when the child's evaluation fails), and str() of the expression
\* that was symbolic when wrapped gives the chain of four parts once every
\* leaf has a value
C23_TracksChild ==
  /\ \A e \in Ids :
       IsExpression(heap[e]) =>
         /\ IsSymbolic(heap, e) <=> ~NonSymbolicTree(heap, heap[e].operation)
         /\ IsSymbolic(heap, e) <=> IsSymbolic(heap, heap[e].operation)
  /\ ExpressionEvaluated =>
       /\ last.ret = Float(heap, heap[Receiver].operation)
       /\ IF Arith(heap, heap[Receiver].operation).def
          THEN last.ret = Ok(Arith(heap, heap[Receiver].operation).val)
          ELSE ~last.ret.ok
  /\ ( /\ ExpressionShown
       /\ Receiver = WrappedSymbolic
       /\ NonSymbolicTree(heap, Receiver)
       /\ Arith(heap, Receiver).def ) =>
       last.ret =
         Ok("E = \\frac{ {a} }{ {F} } = " \o ChildForm("str_substituted").val
              \o " = "
              \o NodeFormatted("%.4g", 0, Arith(heap, Receiver).val)
              \o " \\ \\mathrm{m}")

\* C23: F was given the value 2 after E was wrapped, and str(E) gave the
\* chain of four parts with the result 1
C23_ChainAfterAssignment ==
  /\ ExpressionShown
  /\ Receiver = WrappedSymbolic
  /\ heap[1].value = Whole(2)
  /\ heap[2].value = Whole(2)
  /\ last.ret =
       Ok("E = \\frac{ {a} }{ {F} } = "
            \o "\\frac{  2 \\ \\mathrm{} }{  2 \\ \\mathrm{} }"
            \o " =  1 \\ \\mathrm{m}")

\* C27: the format of a named expression is derived when the expression is
\* constructed and not afterwards: no assignment of a value to a leaf changes
\* the format field of any expression
C27_FormatDerivedOnce ==
  [][AssignStep =>
       \A e \in 1..Len(heap) :
         IsExpression(heap[e]) => heap'[e].format = heap[e].format]_vars

\* C27: G was wrapped with a result of at least 1000, hence with the format
\* %.0f, and keeps it after an assignment that brings the result below 1000
C27_StaleFormatKept ==
  /\ last.call = "value"
  /\ Len(heap) > NamedSize
  /\ heap[Len(heap)].format = "%.0f"
  /\ Arith(heap, Len(heap)).def
  /\ MagnitudeBelow(Arith(heap, Len(heap)).val, 1000)

(***************************************************************************)
(* Properties of failing evaluations, checked under SpecMath.              *)
(***************************************************************************)
\* the last call was result() or float() of a div or div2 node whose first
\* child has a value and whose second child has the value 0
DividedByZero ==
  /\ last.call \in Evaluations
  /\ IsOperation(heap[Receiver])
  /\ heap[Receiver].type \in {DIV, DIV2}
  /\ Len(heap[Receiver].args) = 2
  /\ IsNum(heap[heap[Receiver].args[1]].value)
  /\ IsZero(heap[heap[Receiver].args[2]].value)

\* C24, as the code has it: evaluating div(a, b) or div2(a, b) with the value
\* of b equal to 0 raises ZeroDivisionError, the error of Python's float
\* division, and returns no number
C24_ZeroDivisionRaises ==
  DividedByZero => last.ret = Raise("ZeroDivisionError")

\* C24, as stated: evaluating div(a, b) or div2(a, b) with the value of b
\* equal to 0 raises nothing and returns infinity or NaN
C24_ZeroDivisionGivesInfinity ==
  DividedByZero =>
    /\ last.ret.ok
    /\ last.ret.val.k = "irr"
    /\ last.ret.val.f \in {"inf", "nan"}

\* C24: div(a, b) was evaluated with a = 25 and b = 0
C24_DivisionByZeroEvaluated ==
  /\ DividedByZero
  /\ heap[Receiver].type = DIV
  /\ heap[1].value = Whole(25)
  /\ heap[2].value = Whole(0)
  /\ heap[Receiver].args = <<1, 2>>
  /\ ~last.ret.ok

\* the object i is a sqrt node over one leaf
IsSqrtOfLeaf(i) ==
  /\ IsOperation(heap[i])
  /\ heap[i].type = SQRT
  /\ Len(heap[i].args) = 1
  /\ IsVariable(heap[heap[i].args[1]])

\* the value of the leaf under the sqrt node of the last call
Radicand == heap[heap[Receiver].args[1]].value

\* C25: result() of sqrt(a) is the square root of the value of a when that
\* value is not negative (5 for 25) and raises the domain error ValueError
\* when it is negative; the error is raised by the evaluation only:
\* constructing sqrt(a) succeeds whatever the value, and so do str_symbolic()
\* and str_substituted()
C25_SqrtDomain ==
  /\ ( /\ last.call \in Evaluations
       /\ IsSqrtOfLeaf(Receiver)
       /\ IsNum(Radicand) ) =>
       IF Radicand.n < 0 THEN last.ret = Raise("ValueError")
       ELSE /\ last.ret.ok
            /\ IsNum(last.ret.val) =>
                 /\ ~IsNegative(last.ret.val)
                 /\ PyMul(last.ret.val, last.ret.val) = Radicand
            /\ Radicand = Whole(25) => last.ret.val = Whole(5)
            /\ Radicand = Whole(0) => last.ret.val = Whole(0)
  /\ ( /\ last.call = "Operation"
       /\ last.type = SQRT
       /\ Len(last.args) = 1 ) =>
       /\ last.out = "ok"
       /\ IsSqrtOfLeaf(Len(heap))
       /\ NewNode.args = <<last.args[1].id>>
  /\ ( /\ last.call \in {"str_symbolic", "str_substituted"}
       /\ IsSqrtOfLeaf(Receiver) ) =>
       /\ last.ret.ok
       /\ last.call = "str_symbolic" =>
            last.ret.val = "\\sqrt{ {" \o heap[heap[Receiver].args[1]].name
                             \o "} }"
       /\ (last.call = "str_substituted" /\ Radicand = Whole(-4)) =>
            last.ret.val = "\\sqrt{ \\left( -4 \\right) \\ \\mathrm{} }"

\* C25: result() of sqrt(a) was called with a = -4 and raised the domain
\* error
C25_NegativeRadicandEvaluated ==
  /\ last.call = "result"
  /\ IsSqrtOfLeaf(Receiver)
  /\ Radicand = Whole(-4)
  /\ last.ret = Raise("ValueError")

\* the constructor call of the step returned the expression over the child c
WrappedOver(c) ==
  /\ last'.out = "ok"
  /\ Len(heap') = Len(heap) + 1
  /\ IsExpression(heap'[Len(heap')])
  /\ heap'[Len(heap')].operation = c
  /\ SubSeq(heap', 1, Len(heap)) = heap

\* the tree h[i] holds as many children in every node as its tag takes
WellFormed(h, i) ==
  \A n \in Descendants(h, i) \cup {i} :
    IsOperation(h[n]) => ArityMatches(h[n].type, Len(h[n].args))

\* what the constructor call of the step must do with the child c
ConstructionEvaluates(c) ==
  IF IsSymbolic(heap, c) THEN WrappedOver(c)
  ELSE IF Float(heap, c).ok THEN WrappedOver(c)
       ELSE /\ heap' = heap
            /\ last'.out = Float(heap, c).err

\* C30: Expression(name, tree) over a tree that is not symbolic evaluates the
\* tree during the construction, so that it returns the expression when the
\* evaluation succeeds, and when the evaluation raises (ValueError of sqrt,
\* ZeroDivisionError) it raises the same error and no expression is made;
\* over a symbolic tree it always returns the expression
C30_ConstructionEvaluates ==
  [][last'.call = "Expression" =>
       ConstructionEvaluates(last'.args[1].id)]_vars

\* the same for the trees whose nodes have the number of children of their
\* tag
WellFormedConstructionEvaluates ==
  [][(last'.call = "Expression" /\ WellFormed(heap, last'.args[1].id)) =>
       ConstructionEvaluates(last'.args[1].id)]_vars

\* C30: Expression('E', tree, 'm') was called over a symbolic tree, a div
\* node with the single child a that has no value, and raised
C30_SymbolicConstructionFailed ==
  /\ last.call = "Expression"
  /\ last.out = "IndexError"
  /\ Len(heap) = MathSize + 1
  /\ heap[MathSize + 1].type = DIV
  /\ heap[MathSize + 1].args = <<1>>
  /\ heap[1].value = None

\* Expression('E', sqrt(a), 'm') was called with a = -4 and raised the
\* domain error, leaving no expression
ConstructionFailedInDomain ==
  /\ last.call = "Expression"
  /\ last.out = "ValueError"
  /\ Len(heap) = MathSize + 1
  /\ heap[MathSize + 1].type = SQRT
  /\ heap[1].value = Whole(-4)

(***************************************************************************)
(* Properties of the values of leaves, checked under SpecValue.            *)
(***************************************************************************)
\* the value given to the constructor call Variable(name, value=v, ...)
GivenToConstructor == last.args[1].v

RECURSIVE OwnLeaves(_, _)
\* the leaves that the operation nodes of the tree h[i] hold, directly or
\* through operation nodes
OwnLeaves(h, i) ==
  IF IsVariable(h[i]) THEN {i}
  ELSE IF IsOperation(h[i])
       THEN UNION {OwnLeaves(h, h[i].args[j]) : j \in 1..Len(h[i].args)}
       ELSE {}

\* the operand e of the constructor call of the step is an expression
ExpressionOperand(e) ==
  e.k = "ref" /\ IsExpression(heap[e.id])

\* the child c of the new node is a new leaf with the name and the unit of
\* the expression e and its result in the state before, or no value if the
\* expression was symbolic
SnapshotOf(c, e) ==
  /\ c > Len(heap)
  /\ IsVariable(heap'[c])
  /\ heap'[c].name = heap[e].name
  /\ heap'[c].unit = heap[e].unit
  /\ heap'[c].value = IF NonSymbolicTree(heap, e) THEN Arith(heap, e).val
                      ELSE None

\* C28: an operator call with a named expression as operand fails when the
\* expression has all its values and its evaluation fails; otherwise the new
\* node holds for that operand a new leaf, the snapshot of the expression
\* (its name, its unit, and its result at that time or no value if it was
\* symbolic); no operation node has an expression as child; and an assignment
\* to a leaf leaves the result and the symbolic status of every operation
\* that does not hold the leaf itself as they were, the operations built
\* from an expression over that leaf among them
C28_SnapshotOperand ==
  [][/\ \A p \in 1..Len(heap') :
          IsOperation(heap'[p]) =>
            \A c \in Children(heap', p) : ~IsExpression(heap'[c])
     /\ last'.call \in ConstructorCalls =>
          IF \E j \in 1..Len(last'.args) :
               /\ ExpressionOperand(last'.args[j])
               /\ NonSymbolicTree(heap, last'.args[j].id)
               /\ ~Arith(heap, last'.args[j].id).def
          THEN last'.out # "ok" /\ heap' = heap
          ELSE /\ last'.out = "ok"
               /\ IsOperation(heap'[Len(heap')])
               /\ \A j \in 1..Len(last'.args) :
                    IF ExpressionOperand(last'.args[j])
                    THEN SnapshotOf(heap'[Len(heap')].args[j],
                                    last'.args[j].id)
                    ELSE heap'[Len(heap')].args[j] = last'.args[j].id
     /\ AssignStep =>
          \A p \in 1..Len(heap) :
            (IsOperation(heap[p])
               /\ last'.args[1].id \notin OwnLeaves(heap, p)) =>
              /\ Float(heap', p) = Float(heap, p)
              /\ IsSymbolic(heap', p) <=> IsSymbolic(heap, p)]_vars

\* C28: an operation was built from E while E had the result 1, and after
\* the assignment a := 0 the result of E is 0 and the operation still holds
\* the leaf E with the value 1
C28_SnapshotOutlivesAssignment ==
  /\ last.call = "value"
  /\ Len(heap) > FixtureSize
  /\ IsOperation(NewNode)
  /\ \E c \in Children(heap, Len(heap)) :
       /\ c > FixtureSize
       /\ IsVariable(heap[c])
       /\ heap[c].name = "E"
       /\ heap[c].value = Whole(1)
  /\ Float(heap, FixtureSize) = Ok(Whole(0))

\* C28, as stated: an assignment to a leaf under the expression E never
\* changes the result or the symbolic status of an operation built from E
C28_AssignmentNeverReachesOperation ==
  [][(AssignStep /\ last'.args[1].id \in LeavesOf(heap, FixtureSize)) =>
       \A p \in 1..Len(heap) :
         ( /\ IsOperation(heap[p])
           /\ \E c \in Children(heap, p) :
                c > FixtureSize /\ heap[c].name = heap[FixtureSize].name ) =>
           /\ Float(heap', p) = Float(heap, p)
           /\ IsSymbolic(heap', p) <=> IsSymbolic(heap, p)]_vars

(***************************************************************************)
(* Properties of the markup of nested operations, checked under SpecTree.  *)
(***************************************************************************)
\* the last call was str_symbolic() or str_substituted() of the node i
TreeRendered(i) ==
  last.call \in {"str_symbolic", "str_substituted"} /\ Receiver = i

\* the rendering of the leaf x that the last call asks for
Shown(x) == Str(heap, x, last.call).val

\* the last call was result() or float() of the node i, and a, b and c are
\* numbers
TreeEvaluated(i) ==
  /\ last.call \in Evaluations
  /\ Receiver = i
  /\ \A x \in 1..3 : IsNum(heap[x].value)

====
